---------------------------- MODULE Spec2Model ----------------------------
(***************************************************************************)
(* Model of the xQR backend (src/src/components/HomeView.jsx, server part): *)
(* the shared WebKit process manager (getBrowser / restartBrowser), the     *)
(* capacity-bounded LRUMap, the rate limiters built on the shared           *)
(* rateLimitStore, and the GET /user/:username and GET /clear-cache routes. *)
(* Further parts: the render route GET /qr/:username/image, the durable    *)
(* tier and the DatabaseManager (src/unnamed/part_000), the disk tier,      *)
(* the CSRF token store, the daily cleanup and the shutdown handler.        *)
(*                                                                          *)
(* JavaScript runs one handler at a time; a handler yields only at an       *)
(* await.  Every action below is one such run-to-await segment.             *)
(***************************************************************************)
EXTENDS Integers, Sequences, FiniteSets, TLC

(***************************************************************************)
(* Bounds of the model.                                                     *)
(***************************************************************************)
NumKeys == 3
NumValues == 2
LruCapacity == 2
MaxOps == 5
MaxLaunches == 3
MaxRequests == 4
MaxAuthRequests == 6
MaxTime == 4
MaxImgRequests == 4
MaxTierOps == 3
MaxCsrfOps == 4
MaxElapsed == 100
MaxPruneTime == 8
MaxDbCalls == 3
MaxDbCloses == 1

\* const MAX_SCREENSHOTS_BEFORE_RESTART = 100 in the source.  getBrowser only
\* compares screenshotCount with it, so the model counts to a small limit.
MAX_SCREENSHOTS_BEFORE_RESTART == 3

\* Time is counted in units of 15 minutes (900000 ms); Date.now() is "now".
\* const rateLimitStore = new LRUMap(10000)
RATE_STORE_MAX == 10000
\* rateLimiter(10, 15 * 60 * 1000, 'auth routes')
AUTH_MAX == 10
\* rateLimiter(300, 15 * 60 * 1000, 'global')
GLOBAL_MAX == 300
\* 15 * 60 * 1000 ms, the window of authLimiter and globalLimiter
LIMITER_WINDOW == 1
\* const maxRequests = 3 of the daily limit in GET /user/:username
DAILY_MAX == 3
\* const windowMs = 24 * 60 * 60 * 1000 of the daily limit
DAILY_WINDOW == 96
\* const maxWindow = 15 * 60 * 1000 of the rate-limit cleanup interval
SWEEP_WINDOW == 1
\* the cleanup setInterval period, 60 * 60 * 1000 ms
SWEEP_INTERVAL == 4
\* const PROFILE_CACHE_TTL = 7 * 24 * 60 * 60 * 1000
PROFILE_CACHE_TTL == 672

\* const csrfTokenStore = new LRUMap(5000)
CSRF_STORE_MAX == 5000
\* const CSRF_TOKEN_EXPIRY = 24 * 60 * 60 * 1000
CSRF_TOKEN_EXPIRY == 96
\* the period of the daily cache cleanup, 24 * 60 * 60 * 1000 ms
DAILY_INTERVAL == 96
\* const SCREENSHOT_CACHE_TTL = 60 * 60 * 1000
SCREENSHOT_CACHE_TTL == 4

\* The clients (x-forwarded-for values), usernames and concurrent requests modelled.
Clients == {1}
Users == {1}
Slots == {1, 2}
\* The render requests that may be in flight together.
Handlers == {1, 2}
BrowserIds == 1..MaxLaunches
\* The render requests whose whole route is followed.
ImgHandlers == {1}
\* The usernames render requests ask for; nobody has looked up the second one.
ImgUsers == {1, 2}

Keys == 1..NumKeys
Values == 1..NumValues
Undefined == "undefined"

(***************************************************************************)
(* class LRUMap extends Map.  A JS Map iterates in insertion order, so the  *)
(* map is the sequence of its entries in that order.                        *)
(***************************************************************************)
MapHas(m, key) == \E i \in 1..Len(m) : m[i].k = key

MapGet(m, key) == IF MapHas(m, key) THEN (CHOOSE e \in {m[i] : i \in 1..Len(m)} : e.k = key).v ELSE Undefined

MapDelete(m, key) == SelectSeq(m, LAMBDA e : e.k # key)

\* Map.prototype.set: an existing key keeps its position, a new key goes last.
MapSet(m, key, value) == IF MapHas(m, key) THEN [i \in 1..Len(m) |-> IF m[i].k = key THEN [k |-> key, v |-> value] ELSE m[i]] ELSE Append(m, [k |-> key, v |-> value])

MapKeys(m) == {m[i].k : i \in 1..Len(m)}

\* Faulty variant: the over-capacity check is off by one, so a full map grows.
LRUSet_NoEvict(m, key, value, maxSize) == LET m1 == IF MapHas(m, key) THEN MapDelete(m, key) ELSE m
                                              m2 == MapSet(m1, key, value)
                                          IN  IF Len(m2) > maxSize + 1 THEN MapDelete(m2, Head(m2).k) ELSE m2

\* LRUMap.set(key, value)
LRUSet(m, key, value, maxSize) == LET m1 == IF MapHas(m, key) THEN MapDelete(m, key) ELSE m
                                      m2 == MapSet(m1, key, value)
                                  IN  IF Len(m2) > maxSize THEN MapDelete(m2, Head(m2).k) ELSE m2

\* LRUMap.get(key): the value returned.
LRUGetValue(m, key) == IF ~MapHas(m, key) THEN Undefined ELSE MapGet(m, key)

\* Faulty variant: get returns the value without re-inserting the entry.
LRUGetMap_NoTouch(m, key) == m

\* Faulty variant: get without the has() guard re-inserts the key with value undefined.
LRUGetMap_NoHasCheck(m, key) == MapSet(MapDelete(m, key), key, MapGet(m, key))

\* LRUMap.get(key): the map it leaves behind.
LRUGetMap(m, key) == IF ~MapHas(m, key) THEN m ELSE MapSet(MapDelete(m, key), key, MapGet(m, key))

(***************************************************************************)
(* The durable tier (SQLiteProvider): the ProfileCache and ImageCache       *)
(* tables, each a sequence of rows (username, data, cached_at).  A key is a *)
(* record whose field c tells its spelling: 0 is all lower case.            *)
(***************************************************************************)
\* Faulty variant: the key is used as it was spelled.
ToLowerCase_Keep(key) == key

\* String.prototype.toLowerCase on a key.
ToLowerCase(key) == [key EXCEPT !.c = 0]

\* cleanUsername of the routes: the username without "@", trimmed, lower case.
UserKey(user) == [n |-> user, c |-> 0]

\* What a SELECT that matches nothing makes the getters return (null).
NoRow == [present |-> FALSE, data |-> 0, cached_at |-> 0]

\* SELECT * FROM t WHERE username = ?  (statement.get: the first match or none)
SelectByUsername(table, username) == LET hits == SelectSeq(table, LAMBDA r : r.username = username)
                                     IN  IF Len(hits) = 0 THEN NoRow ELSE [present |-> TRUE, data |-> hits[1].data, cached_at |-> hits[1].cached_at]

\* Faulty variant: a plain INSERT into a table without the primary key.
InsertOrReplace_Append(table, username, data, t) == Append(table, [username |-> username, data |-> data, cached_at |-> t])

\* INSERT OR REPLACE INTO t (username, ..., cached_at): username is the
\* PRIMARY KEY, so a row with that username is deleted before the insert.
InsertOrReplace(table, username, data, t) == Append(SelectSeq(table, LAMBDA r : r.username # username), [username |-> username, data |-> data, cached_at |-> t])

\* Faulty variant: DELETE FROM t WHERE cached_at <= ?
DeleteOlderThan_Inclusive(table, cutoff) == SelectSeq(table, LAMBDA r : ~(r.cached_at <= cutoff))

\* result.changes of the DELETE: the number of rows its WHERE matched.
DeleteChanges(table, cutoff) == Cardinality({i \in 1..Len(table) : table[i].cached_at < cutoff})

\* DELETE FROM t WHERE cached_at < ?
DeleteOlderThan(table, cutoff) == SelectSeq(table, LAMBDA r : ~(r.cached_at < cutoff))

getCachedProfile(table, username) == SelectByUsername(table, ToLowerCase(username))

setCachedProfile(table, username, data, t) == InsertOrReplace(table, ToLowerCase(username), data, t)

cleanExpiredProfiles(table, maxAgeMs, t) == DeleteOlderThan(table, t - maxAgeMs)

\* DELETE FROM ProfileCache
clearAllProfiles(table) == <<>>

getCachedImage(table, username) == SelectByUsername(table, ToLowerCase(username))

setCachedImage(table, username, imageBuffer, t) == InsertOrReplace(table, ToLowerCase(username), imageBuffer, t)

cleanExpiredImages(table, maxAgeMs, t) == DeleteOlderThan(table, t - maxAgeMs)

(***************************************************************************)
(* State.                                                                   *)
(***************************************************************************)
VARIABLES
  lru,        \* an LRUMap(LruCapacity) under test
  lruRet,     \* what the last LRUMap call returned
  lruOp,      \* the last LRUMap call: its name, key and the map it was applied to
  lruTouch,   \* key -> logical time of its last access (set, or get that found it)
  lruSetAt,   \* key -> logical time of its last set
  lruClock,   \* logical time: number of LRUMap calls so far
  pwAvailable,        \* environment: whether import("playwright") succeeds
  playwright,         \* let playwright: "null" or "loaded"
  persistentBrowser,  \* let persistentBrowser: 0 (null) or the id of a launched process
  screenshotCount,    \* let screenshotCount
  browserState,       \* per process id: "none", "launching", "running", "closing", "closed"
  launches,           \* number of webkit.launch() calls started so far
  pc,                 \* per render request: the await it is suspended at
  hb,                 \* per render request: the process it closes, launches or was handed
  why,                \* per render request: the branch of getBrowser it took
  fullAtEntry,        \* per render request: screenshotCount had reached the limit when getBrowser ran
  result,             \* per render request: outcome of its last request
  ccPc,               \* GET /clear-cache: the await it is suspended at
  ccBr,               \* GET /clear-cache: the process whose close() it awaits
  now,                \* Date.now(), in units of 15 minutes
  disableRateLimit,   \* process.env.DISABLE_RATE_LIMIT === 'true'
  rateLimitStore,     \* the LRUMap shared by every limiter: x-forwarded-for -> timestamps
  profileCache,       \* ProfileCache table: its rows (username, data, cached_at)
  rq,                 \* per request slot of GET /user/:username: await, client, username
  issued,             \* number of requests received so far
  sweepPc,            \* the rate-limit cleanup callback: "idle" or "running"
  sweepIdx,           \* position of the cleanup's Map iterator
  nextSweep,          \* time at which the cleanup interval fires next
  lastCheck,          \* per middleware limiter: client, verdict and prior allowed count of its last check
  allowedLog,         \* per middleware limiter and client: times of its allowed checks still in its window
  lastDecision,       \* what GET /user/:username last saw and decided after the cache read
  fetchLog,           \* per client: times at which the provider call was made
  imageCache,         \* ImageCache table: its rows (username = cache key, data = image, cached_at)
  dbOk,               \* environment: whether a statement on the SQLite database succeeds
  ir,                 \* per render request: the await of GET /qr/:username/image it is suspended at, its locals
  resp,               \* per render request: the response it was answered with
  lastDims,           \* the dimensions the last render request was validated with, and the verdict
  tierLast,           \* per durable table and key name: value and spelling of the last set
  tierPrev,           \* per durable table and key name: value and spelling of the set before the last
  tierRet,            \* the last get on a durable table: table, key and what it returned
  tierOps,            \* number of direct calls on the durable tables so far
  diskLast,           \* per asset id: the content of the last cacheImage write, 0 when none
  diskRet,            \* the last GET /images/:id: the id asked for, the status and the body answered
  dbm,                \* databaseManager and its SQLiteProvider: provider, connections, the getDatabase calls in flight
  tierPruned,         \* the last cleanExpired call on a durable table: its number, table, maxAgeMs, what it returned
  csrfTokenStore,     \* the LRUMap of CSRF tokens: userID -> (token, timestamp)
  csrfLast,           \* the last run of csrfProtection: its inputs, what the store held, the verdict
  csrfIssued,         \* per userID: the token issued last and the one issued before it, 0 when none
  csrfOps,            \* number of token issues, checks and sign-outs so far
  diskCache,          \* the files of IMAGE_CACHE_DIR: (id, ext, content, mtime), named id.ext
  dcPc,               \* the daily cache cleanup callback: the await it is suspended at
  dcRun,              \* the tiers the current or last daily cleanup pruned, and those whose prune failed
  nextDaily,          \* time at which the daily cleanup interval fires next
  contexts,           \* per WebKit process: the browser contexts created on it and not closed
  sdPc,               \* gracefulShutdown: "up", or the step the shutdown is at, or "exited"
  sdRun,              \* what the shutdown did: whether close() rejected, storage was closed, the exit code
  unavailableSeen     \* whether a render request has been answered 503 because playwright did not load

varsLRU == <<lru, lruRet, lruOp, lruTouch, lruSetAt, lruClock>>

varsBrowser == <<pwAvailable, playwright, persistentBrowser, screenshotCount, browserState, launches, pc, hb, why, fullAtEntry, result, ccPc, ccBr>>

varsRL == <<now, disableRateLimit, rateLimitStore, profileCache, rq, issued, sweepPc, sweepIdx, nextSweep, lastCheck, allowedLog, lastDecision, fetchLog>>

varsImg == <<imageCache, dbOk, ir, resp, lastDims>>

varsDisk == <<diskLast, diskRet>>

varsDb == <<dbm>>

varsTier == <<tierLast, tierPrev, tierRet, tierOps, tierPruned, varsDisk, varsDb>>

varsCsrf == <<csrfTokenStore, csrfLast, csrfOps, csrfIssued>>

varsDaily == <<diskCache, dcPc, dcRun, nextDaily>>

varsShut == <<sdPc, sdRun>>

varsProc == <<contexts, varsShut, unavailableSeen>>

varsRest == <<varsImg, varsTier, varsCsrf, varsDaily, varsProc>>

vars == <<varsLRU, varsBrowser, varsRL, varsRest>>

NoOp == [op |-> "none", key |-> 0, before |-> <<>>]

InitLRU == /\ lru = <<>>
           /\ lruRet = Undefined
           /\ lruOp = NoOp
           /\ lruTouch = [k \in Keys |-> 0]
           /\ lruSetAt = [k \in Keys |-> 0]
           /\ lruClock = 0

\* Module state right after load: no playwright, no browser, count 0.
InitBrowser == /\ pwAvailable \in BOOLEAN
               /\ playwright = "null"
               /\ persistentBrowser = 0
               /\ screenshotCount = 0
               /\ browserState = [b \in BrowserIds |-> "none"]
               /\ launches = 0
               /\ pc = [h \in Handlers |-> "idle"]
               /\ hb = [h \in Handlers |-> 0]
               /\ why = [h \in Handlers |-> "none"]
               /\ fullAtEntry = [h \in Handlers |-> FALSE]
               /\ result = [h \in Handlers |-> "none"]
               /\ ccPc = "idle"
               /\ ccBr = 0

Limiters == {"global", "auth"}

IdleSlot == [pc |-> "idle", ip |-> 0, user |-> 0]

NoCheck == [ip |-> 0, allowed |-> TRUE, retryAfter |-> 0, prior |-> 0]

NoDecision == [ip |-> 0, present |-> FALSE, cached_at |-> 0, at |-> 0, out |-> "none", narrow |-> FALSE, retryAfter |-> 0]

\* The ProfileCache table is durable: at start it holds no row, a row that
\* has just reached the TTL, or a row one unit younger.
InitRL == /\ now = 0
          /\ disableRateLimit \in BOOLEAN
          /\ rateLimitStore = <<>>
          /\ profileCache \in {<<>>} \cup {<<[username |-> UserKey(u), data |-> 1, cached_at |-> a]>> : u \in Users, a \in {0 - PROFILE_CACHE_TTL, 1 - PROFILE_CACHE_TTL}}
          /\ rq = [s \in Slots |-> IdleSlot]
          /\ issued = 0
          /\ sweepPc = "idle"
          /\ sweepIdx = 0
          /\ nextSweep = SWEEP_INTERVAL
          /\ lastCheck = [l \in Limiters |-> NoCheck]
          /\ allowedLog = [l \in Limiters |-> [c \in Clients |-> <<>>]]
          /\ lastDecision = NoDecision
          /\ fetchLog = [c \in Clients |-> <<>>]

\* One start state of a component, for the specifications that leave it alone.
QuietBrowser == InitBrowser /\ pwAvailable = TRUE

QuietRL == InitRL /\ disableRateLimit = FALSE /\ profileCache = <<>>

IdleImg == [pc |-> "idle", key |-> [n |-> 0, c |-> 0, w |-> 0, h |-> 0, s |-> 0, th |-> "none"], shot |-> 0, context |-> FALSE, timedOut |-> FALSE]

NoResp == [status |-> 0, from |-> "none", body |-> 0]

NoDims == [seen |-> FALSE, width |-> [nan |-> FALSE, n |-> 0], height |-> [nan |-> FALSE, n |-> 0], scale |-> [nan |-> FALSE, n |-> 0], rejected |-> FALSE]

\* The cache key of the render route for a username and validated dimensions.
CacheKey(user, width, height, scale, theme) == [n |-> user, c |-> 0, w |-> width, h |-> height, s |-> scale, th |-> theme]

\* The ImageCache table is durable: at start it is empty or holds, for the
\* default dimensions, a screenshot that has just reached SCREENSHOT_CACHE_TTL
\* or one that is one unit younger.
InitImg == /\ imageCache \in {<<>>} \cup {<<[username |-> CacheKey(u, 393, 852, 30, "dark"), data |-> 1, cached_at |-> a]>> : u \in ImgUsers, a \in {0 - SCREENSHOT_CACHE_TTL, 1 - SCREENSHOT_CACHE_TTL}}
           /\ dbOk = TRUE
           /\ ir = [h \in Handlers |-> IdleImg]
           /\ resp = [h \in Handlers |-> NoResp]
           /\ lastDims = NoDims

QuietImg == InitImg /\ imageCache = <<>>

Tiers == {"profile", "image"}

\* The key names the durable tables are called with directly.
TierNames == {1, 2}

NoSet == [value |-> 0, c |-> 0]

NoGet == [tier |-> "none", n |-> 0, c |-> 0, row |-> NoRow]

\* The asset ids of the disk cache (<username>_avatar, <username>_banner).
AssetIds == {1, 2}

NoServe == [id |-> 0, status |-> 0, body |-> 0]

\* The callers of DatabaseManager.getDatabase that may be in flight together.
DbCallers == {1, 2}

\* The SQLiteProvider objects and the connections, numbered as they are created.
ProviderIds == 1..(MaxDbCloses + 1)

IdleCall == [pc |-> "idle", provider |-> 0, database |-> 0]

NoConnection == [set |-> FALSE, provider |-> 0, database |-> 0]

\* new DatabaseManager(): provider = null, activeConnections empty.  The
\* directory ./databases may or may not exist when the process starts.
InitDb == dbm \in {[provider |-> 0, providers |-> 0, dirReady |-> d, databases |-> [p \in ProviderIds |-> 0], opened |-> 0, activeConnections |-> NoConnection, call |-> [c \in DbCallers |-> IdleCall], ret |-> [c \in DbCallers |-> NoConnection], calls |-> 0, closePc |-> "idle", closes |-> 0] : d \in BOOLEAN}

QuietDb == InitDb /\ dbm.dirReady

NoPrune == [op |-> 0, tier |-> "none", maxAgeMs |-> 0, changes |-> 0]

InitTierTables == /\ tierLast = [tier \in Tiers |-> [n \in TierNames |-> NoSet]]
                  /\ tierPrev = [tier \in Tiers |-> [n \in TierNames |-> NoSet]]
                  /\ tierRet = NoGet
                  /\ tierOps = 0
                  /\ tierPruned = NoPrune
                  /\ diskLast = [id \in AssetIds |-> 0]
                  /\ diskRet = NoServe

InitTier == InitTierTables /\ QuietDb

\* The userIDs that sign in.
CsrfUsers == {1, 2}

NoCsrfCheck == [seq |-> 0, userID |-> 0, csrfToken |-> 0, stored |-> FALSE, token |-> 0, timestamp |-> 0, at |-> 0, passed |-> FALSE]

InitCsrf == /\ csrfTokenStore = <<>>
            /\ csrfIssued = [u \in CsrfUsers |-> [last |-> 0, prev |-> 0]]
            /\ csrfLast = NoCsrfCheck
            /\ csrfOps = 0

NoRun == [ran |-> FALSE, pruned |-> {}, failed |-> {}]

\* The disk cache is durable: at start it holds an avatar older than
\* PROFILE_CACHE_TTL and one written just now, or nothing.
InitDaily == /\ diskCache \in {{}, {[id |-> 1, ext |-> "jpg", content |-> 1, mtime |-> 0 - PROFILE_CACHE_TTL - 1], [id |-> 2, ext |-> "jpg", content |-> 1, mtime |-> 0]}}
             /\ dcPc = "idle"
             /\ dcRun = NoRun
             /\ nextDaily = DAILY_INTERVAL

QuietDaily == InitDaily /\ diskCache = {}

NoShutdown == [closeRejected |-> FALSE, dbClosed |-> FALSE, code |-> 0 - 1]

\* No browser context exists at start, and the server is listening.
InitProc == /\ contexts = [b \in BrowserIds |-> 0]
            /\ sdPc = "up"
            /\ sdRun = NoShutdown
            /\ unavailableSeen = FALSE

QuietRest == QuietImg /\ InitTier /\ InitCsrf /\ QuietDaily /\ InitProc

Init == InitLRU /\ InitBrowser /\ QuietRL /\ QuietRest

InitLRUSpec == InitLRU /\ QuietBrowser /\ QuietRL /\ QuietRest

InitRLSpec == InitLRU /\ QuietBrowser /\ InitRL /\ QuietRest

(***************************************************************************)
(* LRUMap calls.                                                            *)
(***************************************************************************)
LruSetCall(key, value) == /\ lruClock < MaxOps
                          /\ lruClock' = lruClock + 1
                          /\ lru' = LRUSet(lru, key, value, LruCapacity)
                          /\ lruRet' = "this"
                          /\ lruOp' = [op |-> "set", key |-> key, before |-> lru]
                          /\ lruTouch' = [lruTouch EXCEPT ![key] = lruClock + 1]
                          /\ lruSetAt' = [lruSetAt EXCEPT ![key] = lruClock + 1]
                          /\ UNCHANGED <<varsBrowser, varsRL, varsRest>>

LruGetCall(key) == /\ lruClock < MaxOps
                   /\ lruClock' = lruClock + 1
                   /\ lru' = LRUGetMap(lru, key)
                   /\ lruRet' = LRUGetValue(lru, key)
                   /\ lruOp' = [op |-> "get", key |-> key, before |-> lru]
                   /\ lruTouch' = IF MapHas(lru, key) THEN [lruTouch EXCEPT ![key] = lruClock + 1] ELSE lruTouch
                   /\ UNCHANGED <<lruSetAt, varsBrowser, varsRL, varsRest>>

\* Map.prototype.delete, inherited unchanged.
LruDeleteCall(key) == /\ lruClock < MaxOps
                      /\ lruClock' = lruClock + 1
                      /\ lru' = MapDelete(lru, key)
                      /\ lruRet' = MapHas(lru, key)
                      /\ lruOp' = [op |-> "delete", key |-> key, before |-> lru]
                      /\ UNCHANGED <<lruTouch, lruSetAt, varsBrowser, varsRL, varsRest>>

NextLRU == \/ \E key \in Keys, value \in Values : LruSetCall(key, value)
           \/ \E key \in Keys : LruGetCall(key)
           \/ \E key \in Keys : LruDeleteCall(key)

SpecLRU == InitLRUSpec /\ [][NextLRU]_vars

(***************************************************************************)
(* Claims about LRUMap.                                                     *)
(***************************************************************************)
\* The last call was a set of a key that was absent from a full map.
SetIntoFull == /\ lruOp.op = "set"
               /\ ~MapHas(lruOp.before, lruOp.key)
               /\ Len(lruOp.before) = LruCapacity

Evicted == MapKeys(lruOp.before) \ MapKeys(lru)

\* C5: after any sequence of set, get and delete the map holds at most
\* LruCapacity entries, and a set of a new key into a full map removes exactly
\* one existing entry (and stores the new key).
C5_SizeBounded == /\ Len(lru) <= LruCapacity
                  /\ Cardinality(MapKeys(lru)) = Len(lru)
                  /\ SetIntoFull => /\ Cardinality(Evicted) = 1
                                    /\ MapHas(lru, lruOp.key)

C5_Witness == SetIntoFull /\ Cardinality(Evicted) = 1 /\ Len(lru) = LruCapacity

\* C6: the entry evicted by an over-capacity set is the key whose last access
\* (a set, or a get that found it) is the oldest of all keys that were present.
C6_EvictsLeastRecent == SetIntoFull => \A r \in Evicted : \A j \in MapKeys(lruOp.before) \ {r} : lruTouch[r] < lruTouch[j]

\* A get protected a key: the evicted key was set later than a key that survived.
C6_Witness == /\ SetIntoFull
              /\ \E r \in Evicted : \E j \in MapKeys(lruOp.before) \ {r} : lruSetAt[j] < lruSetAt[r] /\ lruTouch[r] < lruTouch[j]

\* C7: get on a key that is not in the map returns undefined and leaves the
\* entries and their order as they were.
C7_GetAbsentNoEffect == (lruOp.op = "get" /\ ~MapHas(lruOp.before, lruOp.key)) => (lruRet = Undefined /\ lru = lruOp.before)

C7_Witness == lruOp.op = "get" /\ ~MapHas(lruOp.before, lruOp.key) /\ Len(lru) > 0

(***************************************************************************)
(* The shared WebKit process: getPlaywright, restartBrowser, getBrowser,    *)
(* the render that follows an acquisition, and GET /clear-cache.            *)
(***************************************************************************)
\* browser.isConnected(): true until the process has gone away.
IsConnected(b) == browserState[b] \in {"running", "closing"}

\* Faulty variant: reuse whatever handle is stored, without the health check.
Healthy_NoConnCheck(b) == b # 0

\* persistentBrowser?.isConnected()
Healthy(b) == b # 0 /\ IsConnected(b)

\* The environment's side of browser.close(): the process is asked to go away.
CloseRequested(b) == [browserState EXCEPT ![b] = IF @ = "running" THEN "closing" ELSE @]

\* webkit.launch() is called by request h: the process gets the next id.
StartLaunch(h, reason) == /\ launches < MaxLaunches
                          /\ launches' = launches + 1
                          /\ hb' = [hb EXCEPT ![h] = launches + 1]
                          /\ pc' = [pc EXCEPT ![h] = "launch"]
                          /\ why' = [why EXCEPT ![h] = reason]

\* getBrowser up to "await getPlaywright()": the dynamic import succeeds or the
\* feature is disabled and the route answers 503.
GbEnter(h) == /\ pc[h] = "idle"
              /\ IF pwAvailable
                   THEN /\ playwright' = "loaded"
                        /\ pc' = [pc EXCEPT ![h] = "gb_pw"]
                        /\ result' = [result EXCEPT ![h] = "none"]
                   ELSE /\ result' = [result EXCEPT ![h] = "unavailable"]
                        /\ UNCHANGED <<playwright, pc>>
              /\ UNCHANGED <<varsLRU, varsRL, varsRest, pwAvailable, persistentBrowser, screenshotCount, browserState, launches, hb, why, fullAtEntry, ccPc, ccBr>>

\* getBrowser after getPlaywright resolved: the restart test, then the health
\* test, then the launch.  restartBrowser suspends at "await close()", the
\* launch at "await pw.webkit.launch()"; a healthy handle is returned at once.
GbCheck(h) == /\ pc[h] = "gb_pw"
              /\ fullAtEntry' = [fullAtEntry EXCEPT ![h] = screenshotCount >= MAX_SCREENSHOTS_BEFORE_RESTART]
              /\ IF screenshotCount >= MAX_SCREENSHOTS_BEFORE_RESTART /\ persistentBrowser # 0
                   THEN /\ browserState' = CloseRequested(persistentBrowser)
                        /\ hb' = [hb EXCEPT ![h] = persistentBrowser]
                        /\ pc' = [pc EXCEPT ![h] = "rb_close"]
                        /\ why' = [why EXCEPT ![h] = "count"]
                        /\ UNCHANGED launches
                   ELSE IF Healthy(persistentBrowser)
                     THEN /\ hb' = [hb EXCEPT ![h] = persistentBrowser]
                          /\ pc' = [pc EXCEPT ![h] = "acquired"]
                          /\ why' = [why EXCEPT ![h] = "reuse"]
                          /\ UNCHANGED <<browserState, launches>>
                     ELSE /\ StartLaunch(h, IF persistentBrowser = 0 THEN "first" ELSE "disconnect")
                          /\ UNCHANGED browserState
              /\ UNCHANGED <<varsLRU, varsRL, varsRest, pwAvailable, playwright, persistentBrowser, screenshotCount, result, ccPc, ccBr>>

\* restartBrowser after "await persistentBrowser.close()" settled (an error is
\* ignored, and may leave the process alive): persistentBrowser = null,
\* screenshotCount = 0; back in getBrowser nothing is stored, so it launches.
RbCloseDone(h) == /\ pc[h] = "rb_close"
                  /\ \E s \in {"closed", "running"} : browserState' = [browserState EXCEPT ![hb[h]] = IF @ = "closed" THEN @ ELSE s]
                  /\ persistentBrowser' = 0
                  /\ screenshotCount' = 0
                  /\ StartLaunch(h, "count")
                  /\ UNCHANGED <<varsLRU, varsRL, varsRest, pwAvailable, playwright, fullAtEntry, result, ccPc, ccBr>>

\* "persistentBrowser = await pw.webkit.launch(...)" resolved; return it.
LaunchDone(h) == /\ pc[h] = "launch"
                 /\ browserState' = [browserState EXCEPT ![hb[h]] = "running"]
                 /\ persistentBrowser' = hb[h]
                 /\ pc' = [pc EXCEPT ![h] = "acquired"]
                 /\ UNCHANGED <<varsLRU, varsRL, varsRest, pwAvailable, playwright, screenshotCount, launches, hb, why, fullAtEntry, result, ccPc, ccBr>>

\* The launch rejected: getBrowser throws and the request fails.
LaunchFail(h) == /\ pc[h] = "launch"
                 /\ browserState' = [browserState EXCEPT ![hb[h]] = "closed"]
                 /\ pc' = [pc EXCEPT ![h] = "idle"]
                 /\ result' = [result EXCEPT ![h] = "launch_failed"]
                 /\ hb' = [hb EXCEPT ![h] = 0]
                 /\ why' = [why EXCEPT ![h] = "none"]
                 /\ fullAtEntry' = [fullAtEntry EXCEPT ![h] = FALSE]
                 /\ UNCHANGED <<varsLRU, varsRL, varsRest, pwAvailable, playwright, persistentBrowser, screenshotCount, launches, ccPc, ccBr>>

\* The render on the handle that was handed out: the screenshot is taken, the
\* context closed, screenshotCount++.
RenderOk(h) == /\ pc[h] = "acquired"
               /\ browserState[hb[h]] = "running"
               /\ screenshotCount' = screenshotCount + 1
               /\ pc' = [pc EXCEPT ![h] = "idle"]
               /\ result' = [result EXCEPT ![h] = "ok"]
               /\ hb' = [hb EXCEPT ![h] = 0]
               /\ why' = [why EXCEPT ![h] = "none"]
               /\ fullAtEntry' = [fullAtEntry EXCEPT ![h] = FALSE]
               /\ UNCHANGED <<varsLRU, varsRL, varsRest, pwAvailable, playwright, persistentBrowser, browserState, launches, ccPc, ccBr>>

\* The render threw (always when the process is gone): 500, count unchanged.
RenderFail(h) == /\ pc[h] = "acquired"
                 /\ pc' = [pc EXCEPT ![h] = "idle"]
                 /\ result' = [result EXCEPT ![h] = "render_failed"]
                 /\ hb' = [hb EXCEPT ![h] = 0]
                 /\ why' = [why EXCEPT ![h] = "none"]
                 /\ fullAtEntry' = [fullAtEntry EXCEPT ![h] = FALSE]
                 /\ UNCHANGED <<varsLRU, varsRL, varsRest, pwAvailable, playwright, persistentBrowser, screenshotCount, browserState, launches, ccPc, ccBr>>

\* GET /clear-cache up to "await databaseManager.clearAllProfiles(...)":
\* every file of IMAGE_CACHE_DIR is unlinked.
CcStart == /\ ccPc = "idle"
           /\ ccPc' = "db"
           /\ diskCache' = {}
           /\ UNCHANGED <<varsLRU, varsRL, varsImg, varsTier, varsCsrf, varsProc, dcPc, dcRun, nextDaily, pwAvailable, playwright, persistentBrowser, screenshotCount, browserState, launches, pc, hb, why, fullAtEntry, result, ccBr>>

\* GET /clear-cache after clearAllProfiles settled: it threw (the catch
\* answers 500), or the profiles are gone and the stored process is closed.
CcAfterDb == /\ ccPc = "db"
             /\ IF ~dbOk
                  THEN /\ ccPc' = "idle"
                       /\ UNCHANGED <<browserState, ccBr, profileCache>>
                  ELSE /\ profileCache' = clearAllProfiles(profileCache)
                       /\ IF persistentBrowser # 0
                            THEN /\ browserState' = CloseRequested(persistentBrowser)
                                 /\ ccBr' = persistentBrowser
                                 /\ ccPc' = "close"
                            ELSE /\ ccPc' = "idle"
                                 /\ UNCHANGED <<browserState, ccBr>>
             /\ UNCHANGED <<varsLRU, varsRest, now, disableRateLimit, rateLimitStore, rq, issued, sweepPc, sweepIdx, nextSweep, lastCheck, allowedLog, lastDecision, fetchLog, pwAvailable, playwright, persistentBrowser, screenshotCount, launches, pc, hb, why, fullAtEntry, result>>

\* GET /clear-cache after close() resolved: persistentBrowser = null.  The
\* render count is left as it is.
CcCloseDone == /\ ccPc = "close"
               /\ browserState' = [browserState EXCEPT ![ccBr] = "closed"]
               /\ persistentBrowser' = 0
               /\ ccPc' = "idle"
               /\ ccBr' = 0
               /\ UNCHANGED <<varsLRU, varsRL, varsRest, pwAvailable, playwright, screenshotCount, launches, pc, hb, why, fullAtEntry, result>>

\* GET /clear-cache when close() rejected: the catch answers 500 and the
\* stored handle stays.
CcCloseThrow == /\ ccPc = "close"
                /\ \E s \in {"closed", "running"} : browserState' = [browserState EXCEPT ![ccBr] = IF @ = "closed" THEN @ ELSE s]
                /\ ccPc' = "idle"
                /\ ccBr' = 0
                /\ UNCHANGED <<varsLRU, varsRL, varsRest, pwAvailable, playwright, persistentBrowser, screenshotCount, launches, pc, hb, why, fullAtEntry, result>>

\* The WebKit process crashes or is killed: isConnected() turns false.
Disconnect(b) == /\ browserState[b] \in {"running", "closing"}
                 /\ browserState' = [browserState EXCEPT ![b] = "closed"]
                 /\ UNCHANGED <<varsLRU, varsRL, varsRest, pwAvailable, playwright, persistentBrowser, screenshotCount, launches, pc, hb, why, fullAtEntry, result, ccPc, ccBr>>

Next == \/ \E h \in Handlers : GbEnter(h)
        \/ \E h \in Handlers : GbCheck(h)
        \/ \E h \in Handlers : RbCloseDone(h)
        \/ \E h \in Handlers : LaunchDone(h)
        \/ \E h \in Handlers : LaunchFail(h)
        \/ \E h \in Handlers : RenderOk(h)
        \/ \E h \in Handlers : RenderFail(h)
        \/ CcStart
        \/ CcAfterDb
        \/ CcCloseDone
        \/ CcCloseThrow
        \/ \E b \in BrowserIds : Disconnect(b)

Spec == Init /\ [][Next]_vars

(***************************************************************************)
(* Claims about the process manager.                                        *)
(***************************************************************************)
Launching(reasons) == {h \in Handlers : pc[h] = "launch" /\ why[h] \in reasons}

\* C1: single-flight launch.  Requests that find no handle stored and call
\* getBrowser concurrently share one launch: any two of them that are waiting
\* for a launch wait for the same process.
C1_SingleFlightLaunch == \A h1, h2 \in Launching({"first"}) : hb[h1] = hb[h2]

\* C2: single-flight relaunch.  When the handle needs a restart (count at the
\* limit, or handle disconnected) no two requests are closing the same old
\* handle in restartBrowser, and no two launches replace it.
C2_SingleFlightRelaunch == /\ \A h1, h2 \in Handlers : (pc[h1] = "rb_close" /\ pc[h2] = "rb_close" /\ hb[h1] = hb[h2]) => h1 = h2
                           /\ \A h1, h2 \in Launching({"count", "disconnect"}) : hb[h1] = hb[h2]

\* C3: when the render count has reached the limit, the next acquisition
\* closes the stored handle, launches a new one and leaves the count at 0,
\* whatever happened in between (clear-cache included).
C3_RestartResetsCount == [][\A h \in Handlers : (pc[h] # "acquired" /\ pc'[h] = "acquired" /\ fullAtEntry'[h]) => (screenshotCount' = 0 /\ why'[h] = "count")]_vars

\* C4: a successful acquisition never hands out a handle that reports
\* disconnected: a stored handle that is not connected is replaced by a newly
\* launched one.
C4_NeverReturnsDisconnected == [][\A h \in Handlers : (pc[h] # "acquired" /\ pc'[h] = "acquired") => (browserState'[hb'[h]] \in {"running", "closing"} /\ (why'[h] = "disconnect" => hb'[h] # persistentBrowser))]_vars

\* A request found the stored handle disconnected and was handed a new, live one.
C4_Witness == \E h \in Handlers : /\ pc[h] = "acquired"
                                  /\ why[h] = "disconnect"
                                  /\ browserState[hb[h]] = "running"
                                  /\ persistentBrowser = hb[h]
                                  /\ \E b \in BrowserIds : b # hb[h] /\ browserState[b] = "closed"

\* C29: the render count is per process: when a launched process is stored
\* as the current handle (first use, restart at the limit, relaunch after a
\* disconnect or after clear-cache) the count is 0.
C29_CountPerHandle == [][\A h \in Handlers : (pc[h] = "launch" /\ pc'[h] = "acquired") => screenshotCount' = 0]_vars

(***************************************************************************)
(* Rate limiting on the shared rateLimitStore, GET /user/:username and the  *)
(* periodic rate-limit cleanup.                                             *)
(***************************************************************************)
\* A unit of model time (15 minutes) in seconds.
SecondsPerUnit == 900

\* Math.ceil(ms / 1000) of a time difference given in units of 15 minutes.
CeilSeconds(d) == d * SecondsPerUnit

\* requests.filter(time => time > windowStart)
FilterAfter(requests, windowStart) == SelectSeq(requests, LAMBDA time : time > windowStart)

\* The middleware returned by rateLimiter(maxRequests, windowMs), up to next().
RateLimiterCheck(store, key, maxRequests, windowMs, t) == LET s1 == IF ~MapHas(store, key) THEN LRUSet(store, key, <<>>, RATE_STORE_MAX) ELSE store
                                                              requests == LRUGetValue(s1, key)
                                                              s2 == LRUGetMap(s1, key)
                                                              validRequests == FilterAfter(requests, t - windowMs)
                                                              windowStart == t - windowMs
                                                          IN  IF Len(validRequests) >= maxRequests
                                                                THEN [allowed |-> FALSE, store |-> s2, retryAfter |-> CeilSeconds(windowStart + windowMs - t)]
                                                                ELSE [allowed |-> TRUE, store |-> LRUSet(s2, key, Append(validRequests, t), RATE_STORE_MAX), retryAfter |-> 0]

\* The daily limit inlined in GET /user/:username.
DailyLimitCheck(store, ip, t) == LET s1 == IF ~MapHas(store, ip) THEN LRUSet(store, ip, <<>>, RATE_STORE_MAX) ELSE store
                                     requests == FilterAfter(LRUGetValue(s1, ip), t - DAILY_WINDOW)
                                     s2 == LRUGetMap(s1, ip)
                                 IN  IF Len(requests) >= DAILY_MAX
                                       THEN [allowed |-> FALSE, store |-> s2, retryAfter |-> CeilSeconds(requests[1] + DAILY_WINDOW - t)]
                                       ELSE [allowed |-> TRUE, store |-> LRUSet(s2, ip, Append(requests, t), RATE_STORE_MAX), retryAfter |-> 0]

\* cached && Date.now() - cached.cached_at < PROFILE_CACHE_TTL
CacheFresh(cached, t) == cached.present /\ t - cached.cached_at < PROFILE_CACHE_TTL

\* Faulty variant: the daily limit is applied before the cache is consulted.
ProfileDecision_LimitFirst(cached, store, ip, t, disabled) == IF disabled
                                                                THEN [out |-> IF CacheFresh(cached, t) THEN "hit" ELSE "fetch", store |-> store, narrow |-> FALSE, retryAfter |-> 0]
                                                                ELSE LET r == DailyLimitCheck(store, ip, t)
                                                                     IN  [out |-> IF ~r.allowed THEN "rl_daily" ELSE IF CacheFresh(cached, t) THEN "hit" ELSE "fetch", store |-> r.store, narrow |-> TRUE, retryAfter |-> r.retryAfter]

\* GET /user/:username from the cache row to the provider call: a fresh row
\* is returned, otherwise the daily limit (unless disabled) decides.
ProfileDecision(cached, store, ip, t, disabled) == IF CacheFresh(cached, t)
                                                     THEN [out |-> "hit", store |-> store, narrow |-> FALSE, retryAfter |-> 0]
                                                     ELSE IF ~disabled
                                                       THEN LET r == DailyLimitCheck(store, ip, t)
                                                            IN  [out |-> IF r.allowed THEN "fetch" ELSE "rl_daily", store |-> r.store, narrow |-> TRUE, retryAfter |-> r.retryAfter]
                                                       ELSE [out |-> "fetch", store |-> store, narrow |-> FALSE, retryAfter |-> 0]

\* Bookkeeping of one middleware check of limiter l for client ip.
PriorAllowed(l, ip, windowMs) == Len(FilterAfter(allowedLog[l][ip], now - windowMs))

Logged(l, ip, windowMs, allowed) == IF allowed THEN Append(FilterAfter(allowedLog[l][ip], now - windowMs), now) ELSE allowedLog[l][ip]

Running == sweepPc = "idle"

\* A GET /user/:username request arrives: globalLimiter, then the handler up
\* to "await databaseManager.getCachedProfile(...)".
ProfileStart(s, ip, user) == /\ Running
                             /\ rq[s].pc = "idle"
                             /\ issued < MaxRequests
                             /\ issued' = issued + 1
                             /\ LET g == RateLimiterCheck(rateLimitStore, ip, GLOBAL_MAX, LIMITER_WINDOW, now)
                                IN  /\ rateLimitStore' = g.store
                                    /\ lastCheck' = [lastCheck EXCEPT !["global"] = [ip |-> ip, allowed |-> g.allowed, retryAfter |-> g.retryAfter, prior |-> PriorAllowed("global", ip, LIMITER_WINDOW)]]
                                    /\ allowedLog' = [allowedLog EXCEPT !["global"][ip] = Logged("global", ip, LIMITER_WINDOW, g.allowed)]
                                    /\ rq' = [rq EXCEPT ![s] = IF g.allowed THEN [pc |-> "cache", ip |-> ip, user |-> user] ELSE IdleSlot]
                             /\ UNCHANGED <<varsLRU, varsBrowser, varsRest, now, disableRateLimit, profileCache, sweepPc, sweepIdx, nextSweep, lastDecision, fetchLog>>

\* The handler after the cache read: cache hit, daily limit, provider call.
ProfileCheck(s) == /\ Running
                   /\ rq[s].pc = "cache"
                   /\ LET cached == getCachedProfile(profileCache, UserKey(rq[s].user))
                          d == ProfileDecision(cached, rateLimitStore, rq[s].ip, now, disableRateLimit)
                      IN  /\ rateLimitStore' = d.store
                          /\ lastDecision' = [ip |-> rq[s].ip, present |-> cached.present, cached_at |-> cached.cached_at, at |-> now, out |-> d.out, narrow |-> d.narrow, retryAfter |-> d.retryAfter]
                          /\ rq' = [rq EXCEPT ![s] = IF d.out = "fetch" THEN [@ EXCEPT !.pc = "fetch"] ELSE IdleSlot]
                          /\ fetchLog' = IF d.out = "fetch" THEN [fetchLog EXCEPT ![rq[s].ip] = Append(@, now)] ELSE fetchLog
                   /\ UNCHANGED <<varsLRU, varsBrowser, varsRest, now, disableRateLimit, profileCache, issued, sweepPc, sweepIdx, nextSweep, lastCheck, allowedLog>>

\* The user data of a provider response: 1 for a user, 0 when there is none.
\* Faulty variant: whatever the provider call gave is written to the cache.
ProfileAfterFetch_Always(table, username, outcome, t) == setCachedProfile(table, username, IF outcome = "ok" THEN 1 ELSE 0, t)

\* From the settled provider call to the response: "if (!response.data)
\* return 404" and the catch come before setCachedProfile(cleanUsername, userData).
ProfileAfterFetch(table, username, outcome, t) == IF outcome = "ok" THEN setCachedProfile(table, username, 1, t) ELSE table

\* xClient.users.getByUsername settled: a found user is written to the
\* profile cache (INSERT OR REPLACE, cached_at = Date.now()); "User not
\* found" and a provider error write nothing.
FetchDone(s, outcome) == /\ Running
                         /\ rq[s].pc = "fetch"
                         /\ profileCache' = ProfileAfterFetch(profileCache, UserKey(rq[s].user), outcome, now)
                         /\ rq' = [rq EXCEPT ![s] = IdleSlot]
                         /\ UNCHANGED <<varsLRU, varsBrowser, varsRest, now, disableRateLimit, rateLimitStore, issued, sweepPc, sweepIdx, nextSweep, lastCheck, allowedLog, lastDecision, fetchLog>>

\* A request to an auth route (POST /signup, POST /signin): globalLimiter and
\* then authLimiter run in the same turn of the event loop.
AuthRequest(ip, budget) == /\ Running
                           /\ issued < budget
                           /\ issued' = issued + 1
                           /\ LET g == RateLimiterCheck(rateLimitStore, ip, GLOBAL_MAX, LIMITER_WINDOW, now)
                                  a == RateLimiterCheck(g.store, ip, AUTH_MAX, LIMITER_WINDOW, now)
                              IN  /\ rateLimitStore' = IF g.allowed THEN a.store ELSE g.store
                                  /\ lastCheck' = [lastCheck EXCEPT !["global"] = [ip |-> ip, allowed |-> g.allowed, retryAfter |-> g.retryAfter, prior |-> PriorAllowed("global", ip, LIMITER_WINDOW)],
                                                                    !["auth"] = IF g.allowed THEN [ip |-> ip, allowed |-> a.allowed, retryAfter |-> a.retryAfter, prior |-> PriorAllowed("auth", ip, LIMITER_WINDOW)] ELSE @]
                                  /\ allowedLog' = [allowedLog EXCEPT !["global"][ip] = Logged("global", ip, LIMITER_WINDOW, g.allowed),
                                                                      !["auth"][ip] = IF g.allowed THEN Logged("auth", ip, LIMITER_WINDOW, a.allowed) ELSE @]
                           /\ UNCHANGED <<varsLRU, varsBrowser, varsRest, now, disableRateLimit, profileCache, rq, sweepPc, sweepIdx, nextSweep, lastDecision, fetchLog>>

\* Time passes.  The cache read is a synchronous SQLite call wrapped in
\* promises: no quarter of an hour goes by while a request waits for it.
Tick == /\ Running
        /\ \A s \in Slots : rq[s].pc # "cache"
        /\ now < MaxTime
        /\ now' = now + 1
        /\ UNCHANGED <<varsLRU, varsBrowser, varsRest, disableRateLimit, rateLimitStore, profileCache, rq, issued, sweepPc, sweepIdx, nextSweep, lastCheck, allowedLog, lastDecision, fetchLog>>

\* Time passes: a long period without requests.
Elapse(d) == /\ Running
             /\ now + d <= MaxElapsed
             /\ now' = now + d
             /\ UNCHANGED <<varsLRU, varsBrowser, varsRest, disableRateLimit, rateLimitStore, profileCache, rq, issued, sweepPc, sweepIdx, nextSweep, lastCheck, allowedLog, lastDecision, fetchLog>>

\* The cleanup interval fires: "for (const [ip, requests] of
\* rateLimitStore.entries())" starts at the first entry.  The callback is
\* synchronous: nothing else runs until it returns.
SweepStart == /\ Running
              /\ now >= nextSweep
              /\ sweepPc' = "running"
              /\ sweepIdx' = 1
              /\ nextSweep' = nextSweep + SWEEP_INTERVAL
              /\ UNCHANGED <<varsLRU, varsBrowser, varsRest, now, disableRateLimit, rateLimitStore, profileCache, rq, issued, lastCheck, allowedLog, lastDecision, fetchLog>>

\* One turn of the cleanup loop on the entry the iterator is at.  A Map
\* iterator walks the entries in insertion order and also reaches entries
\* inserted while it runs; the entry it is at is deleted, or deleted and
\* re-inserted last by LRUMap.set, so the next entry moves into its place.
SweepStep == /\ sweepPc = "running"
             /\ sweepIdx <= Len(rateLimitStore)
             /\ LET ip == rateLimitStore[sweepIdx].k
                    validRequests == FilterAfter(rateLimitStore[sweepIdx].v, now - SWEEP_WINDOW)
                IN  rateLimitStore' = IF Len(validRequests) = 0 THEN MapDelete(rateLimitStore, ip) ELSE LRUSet(rateLimitStore, ip, validRequests, RATE_STORE_MAX)
             /\ UNCHANGED <<varsLRU, varsBrowser, varsRest, now, disableRateLimit, profileCache, rq, issued, sweepPc, sweepIdx, nextSweep, lastCheck, allowedLog, lastDecision, fetchLog>>

\* The iterator is past the last entry: the callback returns.
SweepEnd == /\ sweepPc = "running"
            /\ sweepIdx > Len(rateLimitStore)
            /\ sweepPc' = "idle"
            /\ sweepIdx' = 0
            /\ UNCHANGED <<varsLRU, varsBrowser, varsRest, now, disableRateLimit, rateLimitStore, profileCache, rq, issued, nextSweep, lastCheck, allowedLog, lastDecision, fetchLog>>

NextRL == \/ \E s \in Slots, ip \in Clients, user \in Users : ProfileStart(s, ip, user)
          \/ \E s \in Slots : ProfileCheck(s)
          \/ \E s \in Slots, outcome \in {"ok", "notfound", "error"} : FetchDone(s, outcome)
          \/ \E ip \in Clients : AuthRequest(ip, MaxRequests)
          \/ Tick
          \/ SweepStart
          \/ SweepStep
          \/ SweepEnd

SpecRL == InitRLSpec /\ [][NextRL]_vars

\* Clients that only call the auth routes, often enough to meet authLimiter.
NextAuth == \/ \E ip \in Clients : AuthRequest(ip, MaxAuthRequests)
            \/ Tick
            \/ SweepStart
            \/ SweepStep
            \/ SweepEnd

SpecAuth == InitRLSpec /\ [][NextAuth]_vars

\* The same, with the event loop running the cleanup callback to its end:
\* a synchronous loop takes its next turn whenever it has one.
SpecSweep == InitRLSpec /\ [][NextAuth]_vars /\ WF_vars(SweepStep) /\ WF_vars(SweepEnd)

(***************************************************************************)
(* Claims about the rate limiters.                                          *)
(***************************************************************************)
LimitOf(l) == IF l = "auth" THEN AUTH_MAX ELSE GLOBAL_MAX

\* C8: a check of one limiter for a client is allowed exactly when fewer than
\* its limit of that limiter's earlier allowed checks for that client lie
\* inside its window.
C8_AllowedIffUnderLimit == \A l \in Limiters : lastCheck[l].ip # 0 => (lastCheck[l].allowed <=> lastCheck[l].prior < LimitOf(l))

RecentFetches(ip) == {i \in 1..Len(fetchLog[ip]) : fetchLog[ip][i] > now - DAILY_WINDOW}

\* C9: with the daily limit enabled, no client gets more than DAILY_MAX
\* provider calls admitted inside any 24 hours.
C9_DailyCeiling == ~disableRateLimit => \A ip \in Clients : Cardinality(RecentFetches(ip)) <= DAILY_MAX

\* C10: a profile request that found a fresh cache row is answered from the
\* cache: the daily limiter neither rejects it nor is consulted.
C10_CacheHitBypassesDaily == (lastDecision.out # "none" /\ lastDecision.present /\ lastDecision.at - lastDecision.cached_at < PROFILE_CACHE_TTL) => (lastDecision.out = "hit" /\ ~lastDecision.narrow)

\* A cache hit served to a client whose stored timestamps already meet the
\* daily ceiling, with the daily limit enabled.
C10_Witness == /\ lastDecision.out = "hit"
               /\ ~disableRateLimit
               /\ MapHas(rateLimitStore, lastDecision.ip)
               /\ Len(FilterAfter(MapGet(rateLimitStore, lastDecision.ip), lastDecision.at - DAILY_WINDOW)) >= DAILY_MAX


\* The number the daily limit compares with DAILY_MAX for a client at this moment.
DailyCount(ip) == IF MapHas(rateLimitStore, ip) THEN Len(FilterAfter(MapGet(rateLimitStore, ip), now - DAILY_WINDOW)) ELSE 0

\* The number globalLimiter compares with GLOBAL_MAX for a client at this moment.
GlobalCount(ip) == IF MapHas(rateLimitStore, ip) THEN Len(FilterAfter(MapGet(rateLimitStore, ip), now - LIMITER_WINDOW)) ELSE 0

\* C11: globalLimiter and the daily limit are independent.  A globalLimiter
\* check (a request arrives) leaves the count the daily limit compares for
\* every client as it was, neither adding its own event to it nor dropping an
\* event the daily limit recorded in its 24 hours; and a daily-limit check
\* (the handler goes on after the cache read) leaves the count globalLimiter
\* compares as it was.
C11_LimitersIndependent == [][/\ (issued' = issued + 1 => \A ip \in Clients : DailyCount(ip)' = DailyCount(ip))
                               /\ ((\E s \in Slots : rq[s].pc = "cache" /\ rq'[s].pc # "cache") => \A ip \in Clients : GlobalCount(ip)' = GlobalCount(ip))]_vars

\* C26: the rate-limit cleanup terminates: a run that has started returns,
\* whatever the store holds.
C26_SweepTerminates == (sweepPc = "running") ~> (sweepPc = "idle")

\* The timestamps stored for a client.
Stamps(store, ip) == IF MapHas(store, ip) THEN {MapGet(store, ip)[i] : i \in 1..Len(MapGet(store, ip))} ELSE {}

\* C27: a turn of the cleanup removes no timestamp that the daily limit
\* recorded less than 24 hours ago; and when the cleanup returns, no key with
\* an empty list is left and no list holds a timestamp older than the
\* cleanup's window.
C27_SweepKeepsLiveStamps == [][/\ (sweepPc = "running" /\ ~disableRateLimit)
                                   => (\A ip \in Clients : \A i \in 1..Len(fetchLog[ip]) : ((fetchLog[ip][i] > now - DAILY_WINDOW /\ fetchLog[ip][i] \in Stamps(rateLimitStore, ip)) => fetchLog[ip][i] \in Stamps(rateLimitStore', ip)))
                               /\ (sweepPc = "running" /\ sweepPc' = "idle")
                                   => (\A i \in 1..Len(rateLimitStore') : (Len(rateLimitStore'[i].v) > 0 /\ \A j \in 1..Len(rateLimitStore'[i].v) : rateLimitStore'[i].v[j] > now - SWEEP_WINDOW))]_vars

\* C30: the profile cache is written only by the step that ends a provider
\* call, with the user data of a successful response, for the username that
\* was fetched and stamped with the current time; a provider call is made
\* only after the daily limit admitted it (unless DISABLE_RATE_LIMIT), and a
\* rejected request or a failed call leaves the table as it was.
C30_WriteOnlyAfterFetch == [][/\ profileCache' # profileCache
                                   => (\E s \in Slots : /\ rq[s].pc = "fetch" /\ rq'[s].pc = "idle"
                                                        /\ getCachedProfile(profileCache', UserKey(rq[s].user)) = [present |-> TRUE, data |-> 1, cached_at |-> now]
                                                        /\ \A i \in 1..Len(profileCache') : profileCache'[i].username = UserKey(rq[s].user) \/ \E j \in 1..Len(profileCache) : profileCache[j] = profileCache'[i])
                              /\ \A s \in Slots : (rq[s].pc = "cache" /\ rq'[s].pc = "fetch" /\ ~disableRateLimit)
                                   => (DailyCount(rq[s].ip) < DAILY_MAX /\ now \in Stamps(rateLimitStore', rq[s].ip))
                              /\ \A s \in Slots : (rq[s].pc # "fetch" /\ rq'[s].pc = "fetch") => (rq[s].pc = "cache" /\ lastDecision'.out = "fetch")]_vars

\* With the daily limit enabled a provider call replaced the row of an
\* earlier call at a later time, after a request of that client was rejected
\* by the daily limit.
C30_Witness == /\ ~disableRateLimit
               /\ lastDecision.out = "rl_daily"
               /\ \E u \in Users : getCachedProfile(profileCache, UserKey(u)).present /\ getCachedProfile(profileCache, UserKey(u)).cached_at > 0

(***************************************************************************)
(* GET /qr/:username/image: validation, the profile precondition, the       *)
(* screenshot cache, getBrowser, the render and the cache write.            *)
(***************************************************************************)
\* A query parameter as the client sends it: absent, text that is no number,
\* or a decimal number, given in tenths.
Absent == [t |-> "absent", n |-> 0]

Text == [t |-> "text", n |-> 0]

Num(n) == [t |-> "num", n |-> n]

NaN == [nan |-> TRUE, n |-> 0]

\* parseInt(raw || default): the digits before the decimal point.
ParseInt(raw, default) == IF raw.t = "absent" THEN [nan |-> FALSE, n |-> default]
                          ELSE IF raw.t = "text" THEN NaN
                          ELSE [nan |-> FALSE, n |-> IF raw.n >= 0 THEN raw.n \div 10 ELSE 0 - ((0 - raw.n) \div 10)]

\* parseFloat(raw || default): the number itself, kept in tenths.
ParseFloat(raw, default) == IF raw.t = "absent" THEN [nan |-> FALSE, n |-> default]
                            ELSE IF raw.t = "text" THEN NaN
                            ELSE [nan |-> FALSE, n |-> raw.n]

\* Faulty variant: the upper bounds are exclusive.
InvalidDimensions_Exclusive(width, height, scale) == \/ width.nan \/ height.nan \/ scale.nan
                                                     \/ width.n < 100 \/ width.n >= 1200
                                                     \/ height.n < 100 \/ height.n >= 1000
                                                     \/ scale.n < 10 \/ scale.n >= 40

\* isNaN(width) || isNaN(height) || isNaN(scale) || width < 100 || width > 1200
\* || height < 100 || height > 1000 || scale < 1 || scale > 4   (scale in tenths)
InvalidDimensions(width, height, scale) == \/ width.nan \/ height.nan \/ scale.nan
                                           \/ width.n < 100 \/ width.n > 1200
                                           \/ height.n < 100 \/ height.n > 1000
                                           \/ scale.n < 10 \/ scale.n > 40

\* Faulty variant: a screenshot whose age equals the TTL still counts as fresh.
ScreenshotFresh_Inclusive(cached, t) == cached.present /\ t - cached.cached_at <= SCREENSHOT_CACHE_TTL

\* cachedScreenshot && Date.now() - cachedScreenshot.cached_at < SCREENSHOT_CACHE_TTL
ScreenshotFresh(cached, t) == cached.present /\ t - cached.cached_at < SCREENSHOT_CACHE_TTL

\* Faulty variant: the route does not look at what getCachedProfile returned.
ProfileMissing_NoGate(profileCached) == FALSE

\* if (!profileCached)
ProfileMissing(profileCached) == ~profileCached.present

\* The request is answered: its locals and its getBrowser bookkeeping go away.
ImgAnswer(h, status, from, body) == /\ resp' = [resp EXCEPT ![h] = [status |-> status, from |-> from, body |-> body]]
                                    /\ ir' = [ir EXCEPT ![h] = IdleImg]

ImgRelease(h) == /\ pc' = [pc EXCEPT ![h] = "idle"]
                 /\ hb' = [hb EXCEPT ![h] = 0]
                 /\ why' = [why EXCEPT ![h] = "none"]
                 /\ fullAtEntry' = [fullAtEntry EXCEPT ![h] = FALSE]
                 /\ result' = [result EXCEPT ![h] = "none"]

\* A render request arrives: globalLimiter, then the handler up to
\* "await databaseManager.getCachedProfile(...)".
ImgStart(h, ip, user, rawW, rawH, rawScale, theme, budget) == /\ Running
                                                              /\ ir[h].pc = "idle"
                                                              /\ issued < budget
                                                              /\ issued' = issued + 1
                                                              /\ LET g == RateLimiterCheck(rateLimitStore, ip, GLOBAL_MAX, LIMITER_WINDOW, now)
                                                                     width == ParseInt(rawW, 393)
                                                                     height == ParseInt(rawH, 852)
                                                                     scale == ParseFloat(rawScale, 30)
                                                                     bad == InvalidDimensions(width, height, scale)
                                                                 IN  /\ rateLimitStore' = g.store
                                                                     /\ lastCheck' = [lastCheck EXCEPT !["global"] = [ip |-> ip, allowed |-> g.allowed, retryAfter |-> g.retryAfter, prior |-> PriorAllowed("global", ip, LIMITER_WINDOW)]]
                                                                     /\ allowedLog' = [allowedLog EXCEPT !["global"][ip] = Logged("global", ip, LIMITER_WINDOW, g.allowed)]
                                                                     /\ IF ~g.allowed
                                                                          THEN /\ ImgAnswer(h, 429, "limiter", 0)
                                                                               /\ UNCHANGED lastDims
                                                                          ELSE /\ lastDims' = [seen |-> TRUE, width |-> width, height |-> height, scale |-> scale, rejected |-> bad]
                                                                               /\ IF bad
                                                                                    THEN ImgAnswer(h, 400, "dimensions", 0)
                                                                                    ELSE /\ ir' = [ir EXCEPT ![h] = [pc |-> "profile", key |-> CacheKey(user, width.n, height.n, scale.n, theme), shot |-> issued + 1, context |-> FALSE, timedOut |-> FALSE]]
                                                                                         /\ resp' = [resp EXCEPT ![h] = NoResp]
                                                              /\ UNCHANGED <<varsLRU, varsTier, varsCsrf, varsProc, varsDaily, varsBrowser, now, disableRateLimit, profileCache, rq, sweepPc, sweepIdx, nextSweep, lastDecision, fetchLog, imageCache, dbOk>>

\* After getCachedProfile settled.  The await is outside any try: a failed
\* read rejects the handler and the framework answers 500.  No row: 404.
\* Otherwise on to "await databaseManager.getCachedImage(...)".
ImgProfileRead(h) == /\ ir[h].pc = "profile"
                     /\ IF ~dbOk
                          THEN ImgAnswer(h, 500, "unhandled", 0)
                          ELSE IF ProfileMissing(getCachedProfile(profileCache, UserKey(ir[h].key.n)))
                            THEN ImgAnswer(h, 404, "not_cached", 0)
                            ELSE /\ ir' = [ir EXCEPT ![h].pc = "shot"]
                                 /\ UNCHANGED resp
                     /\ UNCHANGED <<varsLRU, varsTier, varsCsrf, varsProc, varsDaily, varsBrowser, varsRL, imageCache, dbOk, lastDims>>

\* Faulty variant: getBrowser() is called before the cached row is looked
\* at, so a cache hit has loaded playwright (or found it missing) on the way.
ImgShotRead_BrowserFirst(h) == /\ ir[h].pc = "shot"
                               /\ LET cachedScreenshot == getCachedImage(imageCache, ir[h].key)
                                  IN  IF ~dbOk
                                        THEN ImgAnswer(h, 500, "unhandled", 0) /\ UNCHANGED <<playwright, result>>
                                        ELSE IF ScreenshotFresh(cachedScreenshot, now)
                                          THEN /\ ImgAnswer(h, 200, "cache", cachedScreenshot.data)
                                               /\ playwright' = IF pwAvailable THEN "loaded" ELSE playwright
                                               /\ result' = [result EXCEPT ![h] = IF pwAvailable THEN @ ELSE "unavailable"]
                                          ELSE /\ ir' = [ir EXCEPT ![h].pc = "browser"]
                                               /\ UNCHANGED <<resp, playwright, result>>
                               /\ UNCHANGED <<varsLRU, varsTier, varsCsrf, varsProc, varsDaily, varsRL, imageCache, dbOk, lastDims, pwAvailable, persistentBrowser, screenshotCount, browserState, launches, pc, hb, why, fullAtEntry, ccPc, ccBr>>

\* After getCachedImage settled (also outside any try).  A fresh row is the
\* response; otherwise the handler calls getBrowser().
ImgShotRead(h) == /\ ir[h].pc = "shot"
                  /\ LET cachedScreenshot == getCachedImage(imageCache, ir[h].key)
                     IN  IF ~dbOk
                           THEN ImgAnswer(h, 500, "unhandled", 0)
                           ELSE IF ScreenshotFresh(cachedScreenshot, now)
                             THEN ImgAnswer(h, 200, "cache", cachedScreenshot.data)
                             ELSE /\ ir' = [ir EXCEPT ![h].pc = "browser"]
                                  /\ UNCHANGED resp
                  /\ UNCHANGED <<varsLRU, varsTier, varsCsrf, varsProc, varsDaily, varsBrowser, varsRL, imageCache, dbOk, lastDims>>

\* "const browser = await getBrowser()" is entered.
ImgGetBrowser(h) == /\ ir[h].pc = "browser"
                    /\ result[h] = "none"
                    /\ GbEnter(h)

\* getBrowser returned null (503) or threw because the launch failed (the
\* call is outside the try: 500 from the framework).
ImgNoBrowser(h) == /\ ir[h].pc = "browser"
                   /\ pc[h] = "idle"
                   /\ result[h] \in {"unavailable", "launch_failed"}
                   /\ IF result[h] = "unavailable" THEN ImgAnswer(h, 503, "unavailable", 0) ELSE ImgAnswer(h, 500, "unhandled", 0)
                   /\ ImgRelease(h)
                   /\ unavailableSeen' = (unavailableSeen \/ result[h] = "unavailable")
                   /\ UNCHANGED <<varsLRU, varsTier, varsCsrf, contexts, varsShut, varsDaily, varsRL, pwAvailable, playwright, persistentBrowser, screenshotCount, browserState, launches, ccPc, ccBr, imageCache, dbOk, lastDims>>

\* browser.newContext() resolved on process b / context.close() disposed one.
ContextCreated(b) == [contexts EXCEPT ![b] = @ + 1]

ContextDisposed(b) == [contexts EXCEPT ![b] = IF @ > 0 THEN @ - 1 ELSE 0]

\* The try block from browser.newContext to page.screenshot.  The image is
\* captured, with the canvas found or after waitForSelector timed out (the
\* inner catch only logs), and the handler awaits context.close(); or
\* something threw before the context existed (500 from the catch); or it
\* threw afterwards and the catch awaits context.close().
ImgRender(h, outcome) == /\ ir[h].pc = "browser"
                         /\ pc[h] = "acquired"
                         /\ outcome \in {"captured", "captured_after_timeout"} => browserState[hb[h]] = "running"
                         /\ IF outcome \in {"captured", "captured_after_timeout"}
                              THEN /\ ir' = [ir EXCEPT ![h].pc = "ctx_close", ![h].context = TRUE, ![h].timedOut = (outcome = "captured_after_timeout")]
                                   /\ contexts' = ContextCreated(hb[h])
                                   /\ UNCHANGED <<resp, pc, hb, why, fullAtEntry, result>>
                              ELSE IF outcome = "threw_with_context"
                                THEN /\ ir' = [ir EXCEPT ![h].pc = "err_close", ![h].context = TRUE]
                                     /\ contexts' = ContextCreated(hb[h])
                                     /\ UNCHANGED <<resp, pc, hb, why, fullAtEntry, result>>
                                ELSE /\ ImgAnswer(h, 500, "catch", 0)
                                     /\ ImgRelease(h)
                                     /\ UNCHANGED contexts
                         /\ UNCHANGED <<varsLRU, varsTier, varsCsrf, varsDaily, varsShut, unavailableSeen, varsRL, pwAvailable, playwright, persistentBrowser, screenshotCount, browserState, launches, ccPc, ccBr, imageCache, dbOk, lastDims>>

\* Faulty variant: the render is counted before its context is closed.
CountAfterClose_Always(count, closed) == count + 1

\* "await context.close(); context = null; screenshotCount++": the increment
\* is reached only when the close resolved.
CountAfterClose(count, closed) == IF closed THEN count + 1 ELSE count

\* "await context.close()" after the capture settled.  Closed: context =
\* null, screenshotCount++, on to "await databaseManager.setCachedImage(...)".
\* It threw, with the context disposed or not: the catch finds context set
\* and awaits context.close() again.
ImgContextClosed(h, closed) == /\ ir[h].pc = "ctx_close"
                               /\ screenshotCount' = CountAfterClose(screenshotCount, closed)
                               /\ IF closed
                                    THEN /\ ir' = [ir EXCEPT ![h].pc = "write", ![h].context = FALSE]
                                         /\ contexts' = ContextDisposed(hb[h])
                                    ELSE /\ ir' = [ir EXCEPT ![h].pc = "err_close"]
                                         /\ \E disposed \in BOOLEAN : contexts' = IF disposed THEN ContextDisposed(hb[h]) ELSE contexts
                               /\ UNCHANGED <<varsLRU, varsTier, varsCsrf, varsDaily, varsShut, unavailableSeen, varsRL, pwAvailable, playwright, persistentBrowser, browserState, launches, pc, hb, why, fullAtEntry, result, ccPc, ccBr, imageCache, dbOk, resp, lastDims>>

\* "if (context) await context.close()" in the catch settled: 500 from the
\* catch, or, when this close threw too (the context disposed or not), 500
\* from the framework.
ImgErrorClosed(h, closed) == /\ ir[h].pc = "err_close"
                             /\ IF closed
                                  THEN /\ ImgAnswer(h, 500, "catch", 0)
                                       /\ contexts' = ContextDisposed(hb[h])
                                  ELSE /\ ImgAnswer(h, 500, "unhandled", 0)
                                       /\ \E disposed \in BOOLEAN : contexts' = IF disposed THEN ContextDisposed(hb[h]) ELSE contexts
                             /\ ImgRelease(h)
                             /\ UNCHANGED <<varsLRU, varsTier, varsCsrf, varsDaily, varsShut, unavailableSeen, varsRL, pwAvailable, playwright, persistentBrowser, screenshotCount, browserState, launches, ccPc, ccBr, imageCache, dbOk, lastDims>>

\* setCachedImage settled, inside the try: the row is written and the image
\* is the response, or the write threw and the catch answers 500.
ImgCacheWrite(h) == /\ ir[h].pc = "write"
                    /\ IF dbOk
                         THEN /\ imageCache' = setCachedImage(imageCache, ir[h].key, ir[h].shot, now)
                              /\ ImgAnswer(h, 200, "render", ir[h].shot)
                         ELSE /\ ImgAnswer(h, 500, "catch", 0)
                              /\ UNCHANGED imageCache
                    /\ ImgRelease(h)
                    /\ UNCHANGED <<varsLRU, varsTier, varsCsrf, varsProc, varsDaily, varsRL, pwAvailable, playwright, persistentBrowser, screenshotCount, browserState, launches, ccPc, ccBr, dbOk, lastDims>>

\* The environment changes: the playwright package becomes loadable (it is
\* installed, or the cause of the failed import goes away).
PlaywrightInstalled == /\ ~pwAvailable
                       /\ pwAvailable' = TRUE
                       /\ UNCHANGED <<varsLRU, varsRL, varsRest, playwright, persistentBrowser, screenshotCount, browserState, launches, pc, hb, why, fullAtEntry, result, ccPc, ccBr>>

\* The database file becomes unusable (disk full, locked, corrupt) or usable again.
DbBreak == /\ dbOk
           /\ dbOk' = FALSE
           /\ UNCHANGED <<varsLRU, varsTier, varsCsrf, varsProc, varsDaily, varsBrowser, varsRL, imageCache, ir, resp, lastDims>>

DbRepair == /\ ~dbOk
            /\ dbOk' = TRUE
            /\ UNCHANGED <<varsLRU, varsTier, varsCsrf, varsProc, varsDaily, varsBrowser, varsRL, imageCache, ir, resp, lastDims>>

NextImage == \/ \E h \in ImgHandlers, ip \in Clients, user \in ImgUsers, rawW \in {Absent, Num(500)} : ImgStart(h, ip, user, rawW, Absent, Absent, "dark", MaxImgRequests)
             \/ \E h \in ImgHandlers : ImgProfileRead(h)
             \/ \E h \in ImgHandlers : ImgShotRead(h)
             \/ \E h \in ImgHandlers : ImgGetBrowser(h)
             \/ \E h \in ImgHandlers : GbCheck(h)
             \/ \E h \in ImgHandlers : RbCloseDone(h)
             \/ \E h \in ImgHandlers : LaunchDone(h)
             \/ \E h \in ImgHandlers : LaunchFail(h)
             \/ \E h \in ImgHandlers : ImgNoBrowser(h)
             \/ \E h \in ImgHandlers, outcome \in {"captured", "captured_after_timeout", "threw_before_context", "threw_with_context"} : ImgRender(h, outcome)
             \/ \E h \in ImgHandlers, closed \in BOOLEAN : ImgContextClosed(h, closed)
             \/ \E h \in ImgHandlers, closed \in BOOLEAN : ImgErrorClosed(h, closed)
             \/ \E h \in ImgHandlers : ImgCacheWrite(h)
             \/ CcStart
             \/ CcAfterDb
             \/ CcCloseDone
             \/ CcCloseThrow
             \/ \E b \in BrowserIds : Disconnect(b)
             \/ DbBreak
             \/ DbRepair

\* The tables the render requests start with: the profile of user 1 was
\* looked up PROFILE_CACHE_TTL ago or never; the screenshot cache is empty,
\* or holds a screenshot of user 1 that has just reached SCREENSHOT_CACHE_TTL,
\* or a fresh one of user 2 (whose profile row is gone).
ImageStartTables == /\ \A i \in 1..Len(profileCache) : profileCache[i].cached_at = 0 - PROFILE_CACHE_TTL
                    /\ \A j \in 1..Len(imageCache) : (imageCache[j].username.n = 1) = (imageCache[j].cached_at = 0 - SCREENSHOT_CACHE_TTL)

InitImageSpec == InitLRU /\ InitBrowser /\ InitRL /\ disableRateLimit = FALSE /\ InitImg /\ InitTier /\ InitCsrf /\ QuietDaily /\ InitProc /\ ImageStartTables

SpecImage == InitImageSpec /\ [][NextImage]_vars

\* The render requests in an environment where the playwright package can
\* become loadable while the server runs.
NextEngine == NextImage \/ PlaywrightInstalled

SpecEngine == InitImageSpec /\ [][NextEngine]_vars

\* The dimension check alone, on requests for usernames nobody has looked up.
RawWidths == {Absent, Text, Num(500), Num(999), Num(1000), Num(12000), Num(12009), Num(12010)}

RawHeights == {Absent, Text, Num(999), Num(1000), Num(10000), Num(10010)}

RawScales == {Absent, Text, Num(5), Num(10), Num(15), Num(40), Num(41), Num(50)}

NextValidate == \/ \E h \in ImgHandlers, ip \in Clients, user \in Users, rawW \in RawWidths, rawH \in RawHeights, rawScale \in RawScales : ImgStart(h, ip, user, rawW, rawH, rawScale, "dark", MaxImgRequests)
                \/ \E h \in ImgHandlers : ImgProfileRead(h)

InitValidateSpec == InitLRU /\ QuietBrowser /\ QuietRL /\ QuietRest

SpecValidate == InitValidateSpec /\ [][NextValidate]_vars

InClosed(v, lo, hi) == ~v.nan /\ lo <= v.n /\ v.n <= hi

\* C12: a render request is rejected for its dimensions exactly when the
\* width is outside [100, 1200], the height outside [100, 1000] or the scale
\* outside [1, 4] (scale in tenths), all bounds inclusive.
C12_DimensionsValidated == lastDims.seen => (lastDims.rejected <=> ~(InClosed(lastDims.width, 100, 1200) /\ InClosed(lastDims.height, 100, 1000) /\ InClosed(lastDims.scale, 10, 40)))

\* The largest request allowed passed validation.
C12_Witness == /\ lastDims.seen
               /\ ~lastDims.rejected
               /\ lastDims.width.n = 1200 /\ lastDims.height.n = 1000 /\ lastDims.scale.n = 40
               /\ \E h \in ImgHandlers : ir[h].pc = "profile"

RECURSIVE SumContexts(_)
SumContexts(bs) == IF bs = {} THEN 0 ELSE LET b == CHOOSE x \in bs : TRUE IN contexts[b] + SumContexts(bs \ {b})

\* The contexts open on WebKit processes that are still alive.
OpenContexts == SumContexts({b \in BrowserIds : browserState[b] # "closed"})

\* C21: every context a render request created is disposed when the request
\* has returned: while no render request is in flight no context is open on
\* a live process.
C21_ContextsDisposed == (\A h \in ImgHandlers : ir[h].pc = "idle") => OpenContexts = 0

\* The request is inside the route's try block, or in its catch.
InRenderTry(h) == ir[h].pc \in {"ctx_close", "err_close", "write"} \/ (ir[h].pc = "browser" /\ pc[h] = "acquired")

\* C22: a waitForSelector timeout is not a failure: the image is captured,
\* and once the context is closed and the row written the request is
\* answered 200 with the image and the image is in the screenshot cache, as
\* after a render that found the canvas; every other failure inside the
\* render is answered by the route's own 500 "Failed to generate image".
C22_TimeoutNonFatal == [][\A h \in ImgHandlers : /\ (ir[h].pc = "ctx_close" /\ ir[h].timedOut /\ ir'[h].pc = "write") => (ir'[h].timedOut /\ ir'[h].shot = ir[h].shot)
                                                 /\ (ir[h].pc = "write" /\ ir[h].timedOut /\ dbOk /\ ir'[h].pc = "idle")
                                                      => (resp'[h] = [status |-> 200, from |-> "render", body |-> ir[h].shot] /\ getCachedImage(imageCache', ir[h].key).data = ir[h].shot)
                                                 /\ (InRenderTry(h) /\ ir'[h].pc = "idle" /\ resp'[h].status # 200) => (resp'[h].status = 500 /\ resp'[h].from = "catch")]_vars

\* C24: when playwright cannot be loaded getBrowser returns null: nothing
\* is launched, no browser is stored, the render count stays, and the route
\* answers 503; and after a request was answered 503 for that reason no later
\* getBrowser gets past getPlaywright.
C24_EngineUnavailable == [][\A h \in ImgHandlers : /\ (ir[h].pc = "browser" /\ result[h] = "none" /\ result'[h] = "unavailable")
                                                        => (launches' = launches /\ persistentBrowser' = 0 /\ screenshotCount' = screenshotCount /\ browserState' = browserState /\ pc'[h] = "idle")
                                                   /\ (ir[h].pc = "browser" /\ result[h] = "unavailable" /\ ir'[h].pc = "idle") => resp'[h].status = 503
                                                   /\ (unavailableSeen /\ pc[h] = "idle") => pc'[h] # "gb_pw"]_vars

\* C25: the screenshot cache is probed first and the profile precondition
\* only after a miss there: a request is answered 404 "Profile not cached"
\* only when the screenshot cache holds no fresh row for its key; getBrowser
\* runs only after both probes, and the row is written only after the capture.
C25_ScreenshotProbedFirst == [][\A h \in ImgHandlers : /\ (ir[h].pc # "idle" /\ ir'[h].pc = "idle" /\ resp'[h].from = "not_cached") => ~ScreenshotFresh(getCachedImage(imageCache, ir[h].key), now)
                                                       /\ pc'[h] # "idle" => ir'[h].pc \in {"browser", "ctx_close", "err_close", "write"}
                                                       /\ (imageCache' # imageCache /\ ir[h].pc # "idle") => ir[h].pc = "write"]_vars

\* C28: screenshotCount changes in two ways only: the step of a render that
\* has captured its image and closed its context adds exactly one, and
\* restartBrowser sets it to 0.  Every other step (a render that threw or
\* whose close threw, a cache hit, a 400, 404, 429, 500 or 503 answer,
\* clear-cache, a disconnect) leaves it as it was.
C28_CountChanges == [][/\ \A h \in ImgHandlers : (ir[h].pc = "ctx_close" /\ ir'[h].pc = "write") => screenshotCount' = screenshotCount + 1
                       /\ \A h \in ImgHandlers : (pc[h] = "rb_close" /\ pc'[h] # "rb_close") => screenshotCount' = 0
                       /\ screenshotCount' # screenshotCount => \E h \in ImgHandlers : \/ (ir[h].pc = "ctx_close" /\ ir'[h].pc = "write")
                                                                                       \/ (pc[h] = "rb_close" /\ pc'[h] # "rb_close")]_vars

\* A request found the count at the limit, restarted the browser (count 0),
\* and its own render has been counted: the count is 1.
C28_Witness == \E h \in ImgHandlers : /\ ir[h].pc = "write"
                                      /\ why[h] = "count"
                                      /\ screenshotCount = 1
                                      /\ launches >= 2

(***************************************************************************)
(* The durable tables called directly: set and get of both tables with     *)
(* keys in either spelling.                                                 *)
(***************************************************************************)
\* The key a table is called with: name n, spelled in lower case (c = 0) or not.
TierKey(tier, n, c) == IF tier = "profile" THEN [n |-> n, c |-> c] ELSE [CacheKey(n, 393, 852, 30, "dark") EXCEPT !.c = c]

TierTable(tier) == IF tier = "profile" THEN profileCache ELSE imageCache

TierRead(tier, key) == IF tier = "profile" THEN getCachedProfile(profileCache, key) ELSE getCachedImage(imageCache, key)

\* setCachedProfile / setCachedImage
TierSet(tier, n, c, value) == /\ Running
                              /\ dbOk
                              /\ tierOps < MaxTierOps
                              /\ tierOps' = tierOps + 1
                              /\ IF tier = "profile"
                                   THEN /\ profileCache' = setCachedProfile(profileCache, TierKey(tier, n, c), value, now)
                                        /\ UNCHANGED imageCache
                                   ELSE /\ imageCache' = setCachedImage(imageCache, TierKey(tier, n, c), value, now)
                                        /\ UNCHANGED profileCache
                              /\ tierLast' = [tierLast EXCEPT ![tier][n] = [value |-> value, c |-> c]]
                              /\ tierPrev' = [tierPrev EXCEPT ![tier][n] = tierLast[tier][n]]
                              /\ tierRet' = NoGet
                              /\ UNCHANGED <<varsLRU, varsBrowser, varsCsrf, varsProc, varsDaily, now, disableRateLimit, rateLimitStore, rq, issued, sweepPc, sweepIdx, nextSweep, lastCheck, allowedLog, lastDecision, fetchLog, dbOk, ir, resp, lastDims, tierPruned, varsDisk, varsDb>>

\* getCachedProfile / getCachedImage
TierGet(tier, n, c) == /\ Running
                       /\ dbOk
                       /\ tierOps < MaxTierOps
                       /\ tierOps' = tierOps + 1
                       /\ tierRet' = [tier |-> tier, n |-> n, c |-> c, row |-> TierRead(tier, TierKey(tier, n, c))]
                       /\ UNCHANGED <<varsLRU, varsBrowser, varsRL, varsCsrf, varsProc, varsDaily, varsImg, tierLast, tierPrev, tierPruned, varsDisk, varsDb>>

NextTier == \/ \E tier \in Tiers, n \in TierNames, c \in {0, 1}, value \in Values : TierSet(tier, n, c, value)
            \/ \E tier \in Tiers, n \in TierNames, c \in {0, 1} : TierGet(tier, n, c)
            \/ \E d \in {DAILY_INTERVAL} : Elapse(d)

InitTierSpec == InitLRU /\ QuietBrowser /\ QuietRL /\ QuietRest

SpecTier == InitTierSpec /\ [][NextTier]_vars

\* C14: set on a durable table is an upsert.  Each table holds at most one
\* row per key name (spelling aside); for every key that was set, get with
\* the key of the last set finds the value of that last set; and a get made
\* after the last set with that key returned that value.
C14_SetIsUpsert == \A tier \in Tiers : /\ \A i, j \in 1..Len(TierTable(tier)) : TierTable(tier)[i].username.n = TierTable(tier)[j].username.n => i = j
                                       /\ \A n \in TierNames : tierLast[tier][n].value # 0 => (TierRead(tier, TierKey(tier, n, tierLast[tier][n].c)).present /\ TierRead(tier, TierKey(tier, n, tierLast[tier][n].c)).data = tierLast[tier][n].value)
                                       /\ (tierRet.tier = tier /\ tierLast[tier][tierRet.n].value # 0 /\ tierLast[tier][tierRet.n].c = tierRet.c) => (tierRet.row.present /\ tierRet.row.data = tierLast[tier][tierRet.n].value)

\* set(key, v1), set(key, v2) with another value, then get(key) returned v2.
C14_Witness == \E tier \in Tiers : /\ tierRet.tier = tier
                                   /\ tierPrev[tier][tierRet.n].value # 0
                                   /\ tierPrev[tier][tierRet.n].value # tierLast[tier][tierRet.n].value
                                   /\ tierLast[tier][tierRet.n].c = tierRet.c
                                   /\ tierRet.row.data = tierLast[tier][tierRet.n].value
                                   /\ Len(TierTable(tier)) = 1

(***************************************************************************)
(* CSRF tokens: issued by POST /signup and POST /signin, checked by         *)
(* csrfProtection on PUT /me, dropped by POST /signout and by the hourly    *)
(* cleanup.                                                                 *)
(***************************************************************************)
CsrfTokens == {1, 2}

\* globalLimiter, mounted on every route, as the first step of a request.
GlobalLimiterStep(ip) == LET g == RateLimiterCheck(rateLimitStore, ip, GLOBAL_MAX, LIMITER_WINDOW, now)
                         IN  /\ rateLimitStore' = g.store
                             /\ lastCheck' = [lastCheck EXCEPT !["global"] = [ip |-> ip, allowed |-> g.allowed, retryAfter |-> g.retryAfter, prior |-> PriorAllowed("global", ip, LIMITER_WINDOW)]]
                             /\ allowedLog' = [allowedLog EXCEPT !["global"][ip] = Logged("global", ip, LIMITER_WINDOW, g.allowed)]

GlobalAllows(ip) == RateLimiterCheck(rateLimitStore, ip, GLOBAL_MAX, LIMITER_WINDOW, now).allowed

\* What csrfTokenStore.get(userID) finds.
StoredData(store, userID) == IF MapHas(store, userID) THEN [stored |-> TRUE, token |-> MapGet(store, userID).token, timestamp |-> MapGet(store, userID).timestamp] ELSE [stored |-> FALSE, token |-> 0, timestamp |-> 0]

\* Faulty variant: an expired token is refused but its entry is left in the store.
CsrfProtection_KeepExpired(store, userID, csrfToken, t) == IF csrfToken = 0 \/ userID = 0
                                                             THEN [passed |-> FALSE, store |-> store]
                                                             ELSE LET storedData == StoredData(store, userID)
                                                                      s1 == LRUGetMap(store, userID)
                                                                  IN  IF ~storedData.stored \/ storedData.token # csrfToken
                                                                        THEN [passed |-> FALSE, store |-> s1]
                                                                        ELSE IF t - storedData.timestamp > CSRF_TOKEN_EXPIRY
                                                                          THEN [passed |-> FALSE, store |-> s1]
                                                                          ELSE [passed |-> TRUE, store |-> s1]

\* csrfProtection: whether next() is reached, and the store it leaves.
\* csrfToken 0 is a missing x-csrf-token header, userID 0 a missing userID.
CsrfProtection(store, userID, csrfToken, t) == IF csrfToken = 0 \/ userID = 0
                                                 THEN [passed |-> FALSE, store |-> store]
                                                 ELSE LET storedData == StoredData(store, userID)
                                                          s1 == LRUGetMap(store, userID)
                                                      IN  IF ~storedData.stored \/ storedData.token # csrfToken
                                                            THEN [passed |-> FALSE, store |-> s1]
                                                            ELSE IF t - storedData.timestamp > CSRF_TOKEN_EXPIRY
                                                              THEN [passed |-> FALSE, store |-> MapDelete(s1, userID)]
                                                              ELSE [passed |-> TRUE, store |-> s1]

\* Faulty variant: a session that has a token keeps it.
IssueToken_KeepFirst(store, userID, token, t) == IF MapHas(store, userID) THEN store ELSE LRUSet(store, userID, [token |-> token, timestamp |-> t], CSRF_STORE_MAX)

\* csrfTokenStore.set(userID, { token: csrfToken, timestamp: Date.now() })
IssueToken(store, userID, token, t) == LRUSet(store, userID, [token |-> token, timestamp |-> t], CSRF_STORE_MAX)

\* POST /signup, POST /signin after the credentials were accepted and the
\* JWT generated: csrfTokenStore.set(userID, { token, timestamp: Date.now() }).
CsrfIssue(userID, token) == /\ Running
                            /\ csrfOps < MaxCsrfOps
                            /\ csrfOps' = csrfOps + 1
                            /\ csrfTokenStore' = IssueToken(csrfTokenStore, userID, token, now)
                            /\ csrfIssued' = [csrfIssued EXCEPT ![userID] = [last |-> token, prev |-> @.last]]
                            /\ UNCHANGED <<varsLRU, varsBrowser, varsRL, varsImg, varsTier, varsProc, varsDaily, csrfLast>>

\* PUT /me: globalLimiter, authMiddleware (the JWT names userID), then
\* csrfProtection, in one turn of the event loop.
CsrfCheck(ip, userID, csrfToken) == /\ Running
                                    /\ csrfOps < MaxCsrfOps
                                    /\ csrfOps' = csrfOps + 1
                                    /\ GlobalLimiterStep(ip)
                                    /\ IF GlobalAllows(ip)
                                         THEN LET r == CsrfProtection(csrfTokenStore, userID, csrfToken, now)
                                                  storedData == StoredData(csrfTokenStore, userID)
                                              IN  /\ csrfTokenStore' = r.store
                                                  /\ csrfLast' = [seq |-> csrfLast.seq + 1, userID |-> userID, csrfToken |-> csrfToken, stored |-> storedData.stored, token |-> storedData.token, timestamp |-> storedData.timestamp, at |-> now, passed |-> r.passed]
                                         ELSE UNCHANGED <<csrfTokenStore, csrfLast>>
                                    /\ UNCHANGED <<varsLRU, varsBrowser, varsImg, varsTier, varsProc, varsDaily, now, disableRateLimit, profileCache, rq, issued, sweepPc, sweepIdx, nextSweep, lastDecision, fetchLog, csrfIssued>>

\* POST /signout: globalLimiter, authMiddleware, csrfTokenStore.delete(userID).
SignOut(ip, userID) == /\ Running
                       /\ csrfOps < MaxCsrfOps
                       /\ csrfOps' = csrfOps + 1
                       /\ GlobalLimiterStep(ip)
                       /\ csrfTokenStore' = IF GlobalAllows(ip) THEN MapDelete(csrfTokenStore, userID) ELSE csrfTokenStore
                       /\ UNCHANGED <<varsLRU, varsBrowser, varsImg, varsTier, varsProc, varsDaily, now, disableRateLimit, profileCache, rq, issued, sweepPc, sweepIdx, nextSweep, lastDecision, fetchLog, csrfLast, csrfIssued>>

\* The hourly CSRF cleanup: entries older than CSRF_TOKEN_EXPIRY are deleted.
\* It can fire at the full hours counted from the start of the process.
CsrfSweep == /\ Running
             /\ now % SWEEP_INTERVAL = 0
             /\ csrfTokenStore' = SelectSeq(csrfTokenStore, LAMBDA e : ~(now - e.v.timestamp > CSRF_TOKEN_EXPIRY))
             /\ csrfTokenStore' # csrfTokenStore
             /\ UNCHANGED <<varsLRU, varsBrowser, varsRL, varsImg, varsTier, varsProc, varsDaily, csrfLast, csrfOps, csrfIssued>>

NextCsrf == \/ \E userID \in CsrfUsers, token \in CsrfTokens : CsrfIssue(userID, token)
            \/ \E ip \in Clients, userID \in CsrfUsers, csrfToken \in CsrfTokens \cup {0} : CsrfCheck(ip, userID, csrfToken)
            \/ \E ip \in Clients, userID \in CsrfUsers : SignOut(ip, userID)
            \/ CsrfSweep
            \/ \E d \in {CSRF_TOKEN_EXPIRY - 1, CSRF_TOKEN_EXPIRY, CSRF_TOKEN_EXPIRY + 1, CSRF_TOKEN_EXPIRY + SWEEP_INTERVAL} : Elapse(d)

InitCsrfSpec == InitLRU /\ QuietBrowser /\ QuietRL /\ QuietRest

SpecCsrf == InitCsrfSpec /\ [][NextCsrf]_vars

\* C15: a check that presents the stored token of its session more than 24
\* hours after the token was issued does not pass, and right after that check
\* the store holds no entry for the session.
C15_ExpiredTokenRemoved == [][(csrfLast'.seq # csrfLast.seq /\ csrfLast'.stored /\ csrfLast'.token = csrfLast'.csrfToken /\ csrfLast'.at - csrfLast'.timestamp > CSRF_TOKEN_EXPIRY)
                                => (~csrfLast'.passed /\ ~MapHas(csrfTokenStore', csrfLast'.userID))]_vars

\* The stored token, presented 24 hours and one unit after its issue, was
\* refused and its entry is gone.
C15_Witness == /\ csrfLast.stored
               /\ csrfLast.token = csrfLast.csrfToken
               /\ csrfLast.at - csrfLast.timestamp = CSRF_TOKEN_EXPIRY + 1
               /\ ~csrfLast.passed
               /\ ~MapHas(csrfTokenStore, csrfLast.userID)

\* C16: a check passes exactly when the store holds a token for the session,
\* the presented token equals it and less than 24 hours have gone by since it
\* was issued; at exactly 24 hours a matching token is refused.
C16_ValidIffFreshMatch == csrfLast.seq > 0 => (csrfLast.passed <=> (csrfLast.stored /\ csrfLast.csrfToken # 0 /\ csrfLast.token = csrfLast.csrfToken /\ csrfLast.at - csrfLast.timestamp < CSRF_TOKEN_EXPIRY))

\* C17: a failed cache write does not block the response.  A request whose
\* image was captured and whose setCachedImage call has settled, whether the
\* write succeeded or threw, answers 200 with the image it rendered.
C17_WriteFailureStillServes == [][\A h \in ImgHandlers : (ir[h].pc = "write" /\ ir'[h].pc # "write")
                                     => (resp'[h].status = 200 /\ resp'[h].from = "render" /\ resp'[h].body = ir[h].shot)]_vars

\* C18: a failed read of a durable table counts as a miss.  When the read of
\* the screenshot cache fails the render request goes on to getBrowser as
\* for an absent row, and when the read of the profile cache fails it is
\* answered as for an absent row; it is not answered 500.
C18_ReadFailureIsMiss == [][\A h \in ImgHandlers : /\ (~dbOk /\ ir[h].pc = "shot" /\ ir'[h].pc # "shot") => ir'[h].pc = "browser"
                                                   /\ (~dbOk /\ ir[h].pc = "profile" /\ ir'[h].pc # "profile") => (resp'[h].status = 404 /\ resp'[h].from = "not_cached")]_vars

\* C19: a failing close is swallowed.  After the close of the stored process
\* settled in restartBrowser the handle is dropped, the count reset and the
\* launch started; after the close in GET /clear-cache settled the handle is
\* dropped; after the close of the context of a captured render settled the
\* count is incremented and the cache write follows; and after the close in
\* the render error path settled the route's own 500 is the answer.
C19_CloseErrorsSwallowed == [][/\ \A h \in ImgHandlers : /\ (pc[h] = "rb_close" /\ pc'[h] # "rb_close") => (persistentBrowser' = 0 /\ screenshotCount' = 0 /\ pc'[h] = "launch")
                                                         /\ (ir[h].pc = "ctx_close" /\ ir'[h].pc # "ctx_close") => (ir'[h].pc = "write" /\ screenshotCount' = screenshotCount + 1)
                                                         /\ (ir[h].pc = "err_close" /\ ir'[h].pc # "err_close") => (resp'[h].status = 500 /\ resp'[h].from = "catch")
                                /\ (ccPc = "close" /\ ccPc' # "close") => persistentBrowser' = 0]_vars

(***************************************************************************)
(* The daily cache cleanup: cleanExpiredProfiles, cleanExpiredImages and    *)
(* cleanExpiredDiskCache inside one try.                                    *)
(***************************************************************************)
DailyTiers == {"profile", "image", "disk"}

\* cleanExpiredDiskCache: the files whose age exceeds PROFILE_CACHE_TTL are unlinked.
cleanExpiredDiskCache(files, t) == {f \in files : ~(t - f.mtime > PROFILE_CACHE_TTL)}

\* The interval fires: the callback runs up to "await cleanExpiredProfiles".
DailyStart == /\ Running
              /\ dcPc = "idle"
              /\ now >= nextDaily
              /\ nextDaily' = nextDaily + DAILY_INTERVAL
              /\ dcPc' = "profiles"
              /\ dcRun' = [ran |-> TRUE, pruned |-> {}, failed |-> {}]
              /\ UNCHANGED <<varsLRU, varsBrowser, varsRL, varsImg, varsTier, varsCsrf, varsProc, diskCache>>

\* cleanExpiredProfiles settled: on to "await cleanExpiredImages", or the
\* catch logs the error and the callback returns.
DailyProfilesDone == /\ dcPc = "profiles"
                     /\ IF dbOk
                          THEN /\ profileCache' = cleanExpiredProfiles(profileCache, PROFILE_CACHE_TTL, now)
                               /\ dcRun' = [dcRun EXCEPT !.pruned = @ \cup {"profile"}]
                               /\ dcPc' = "images"
                          ELSE /\ dcRun' = [dcRun EXCEPT !.failed = @ \cup {"profile"}]
                               /\ dcPc' = "idle"
                               /\ UNCHANGED profileCache
                     /\ UNCHANGED <<varsLRU, varsBrowser, varsImg, varsTier, varsCsrf, varsProc, now, disableRateLimit, rateLimitStore, rq, issued, sweepPc, sweepIdx, nextSweep, lastCheck, allowedLog, lastDecision, fetchLog, diskCache, nextDaily>>

\* cleanExpiredImages settled: cleanExpiredDiskCache() runs in the same turn
\* (it catches its own errors: an unreadable directory deletes nothing), or
\* the catch logs the error and the callback returns.
DailyImagesDone(readable) == /\ dcPc = "images"
                             /\ IF dbOk
                                  THEN /\ imageCache' = cleanExpiredImages(imageCache, SCREENSHOT_CACHE_TTL, now)
                                       /\ diskCache' = IF readable THEN cleanExpiredDiskCache(diskCache, now) ELSE diskCache
                                       /\ dcRun' = [dcRun EXCEPT !.pruned = @ \cup {"image"} \cup (IF readable THEN {"disk"} ELSE {}), !.failed = @ \cup (IF readable THEN {} ELSE {"disk"})]
                                  ELSE /\ dcRun' = [dcRun EXCEPT !.failed = @ \cup {"image"}]
                                       /\ UNCHANGED <<imageCache, diskCache>>
                             /\ dcPc' = "idle"
                             /\ UNCHANGED <<varsLRU, varsBrowser, varsRL, varsTier, varsCsrf, varsProc, dbOk, ir, resp, lastDims, nextDaily>>

NextDaily == \/ DailyStart
             \/ DailyProfilesDone
             \/ \E readable \in BOOLEAN : DailyImagesDone(readable)
             \/ DbBreak
             \/ DbRepair
             \/ \E d \in {1, DAILY_INTERVAL} : Elapse(d)

InitDailySpec == InitLRU /\ QuietBrowser /\ InitRL /\ disableRateLimit = FALSE /\ InitImg /\ InitTier /\ InitCsrf /\ InitDaily /\ InitProc

SpecDaily == InitDailySpec /\ [][NextDaily]_vars

\* C20: the daily cleanup treats its tiers separately.  When a run has ended,
\* every tier (profile cache, screenshot cache, disk cache) was either pruned
\* in that run or is the tier whose own prune failed; no tier was skipped
\* because another one failed.
C20_TiersPrunedSeparately == (dcRun.ran /\ dcPc = "idle") => dcRun.pruned \cup dcRun.failed = DailyTiers

(***************************************************************************)
(* gracefulShutdown on SIGTERM / SIGINT.                                    *)
(***************************************************************************)
\* server.close() has not been called: new requests are accepted.
Accepting == sdPc = "up"

\* process.exit has not run.
Alive == sdPc # "exited"

\* An awaited step of the server.close callback rejected.  Nothing catches
\* it: the runtime ends the process on the unhandled rejection (code 1), or
\* only warns and the process lives on until the 10 s timer.
SdRejected == \E crash \in BOOLEAN : sdPc' = IF crash THEN "exited" ELSE "stuck"

\* The signal handler: server.close(callback) stops the listener, and
\* setTimeout(() => process.exit(1), 10000) is armed.
ShutdownSignal == /\ sdPc = "up"
                  /\ sdPc' = "draining"
                  /\ UNCHANGED <<varsLRU, varsBrowser, varsRL, varsImg, varsTier, varsCsrf, varsDaily, contexts, unavailableSeen, sdRun>>

\* The last connection has ended and the callback of server.close runs up to
\* its first await: persistentBrowser.close() when a browser is stored,
\* databaseManager.closeAll() otherwise.
SdDrained == /\ sdPc = "draining"
             /\ \A h \in Handlers : pc[h] = "idle"
             /\ IF persistentBrowser # 0
                  THEN /\ browserState' = CloseRequested(persistentBrowser)
                       /\ sdPc' = "close"
                  ELSE /\ sdPc' = "db"
                       /\ UNCHANGED browserState
             /\ UNCHANGED <<varsLRU, varsRL, varsImg, varsTier, varsCsrf, varsDaily, contexts, unavailableSeen, sdRun, pwAvailable, playwright, persistentBrowser, screenshotCount, launches, pc, hb, why, fullAtEntry, result, ccPc, ccBr>>

\* "await persistentBrowser.close()" settled: on to closeAll, or the
\* rejection leaves the callback.
SdCloseDone(closed) == /\ sdPc = "close"
                       /\ IF closed
                            THEN /\ browserState' = [browserState EXCEPT ![persistentBrowser] = "closed"]
                                 /\ sdPc' = "db"
                                 /\ UNCHANGED sdRun
                            ELSE /\ \E s \in {"closed", "running"} : browserState' = [browserState EXCEPT ![persistentBrowser] = IF @ = "closed" THEN @ ELSE s]
                                 /\ SdRejected
                                 /\ sdRun' = [sdRun EXCEPT !.closeRejected = TRUE, !.code = IF sdPc' = "exited" THEN 1 ELSE @]
                       /\ UNCHANGED <<varsLRU, varsRL, varsImg, varsTier, varsCsrf, varsDaily, contexts, unavailableSeen, pwAvailable, playwright, persistentBrowser, screenshotCount, launches, pc, hb, why, fullAtEntry, result, ccPc, ccBr>>

\* "await databaseManager.closeAll()" settled: process.exit(0), or the
\* rejection leaves the callback.
SdDbClosed(closed) == /\ sdPc = "db"
                      /\ IF closed
                           THEN /\ sdPc' = "exited"
                                /\ sdRun' = [sdRun EXCEPT !.dbClosed = TRUE, !.code = 0]
                           ELSE /\ SdRejected
                                /\ sdRun' = [sdRun EXCEPT !.code = IF sdPc' = "exited" THEN 1 ELSE @]
                      /\ UNCHANGED <<varsLRU, varsBrowser, varsRL, varsImg, varsTier, varsCsrf, varsDaily, contexts, unavailableSeen>>

\* The 10 s timer fires: process.exit(1).
SdDeadline == /\ sdPc \in {"draining", "close", "db", "stuck"}
              /\ sdPc' = "exited"
              /\ sdRun' = [sdRun EXCEPT !.code = 1]
              /\ UNCHANGED <<varsLRU, varsBrowser, varsRL, varsImg, varsTier, varsCsrf, varsDaily, contexts, unavailableSeen>>

\* Render requests on the shared browser until the signal, and the shutdown.
NextShutdown == \/ Accepting /\ \E h \in Handlers : GbEnter(h)
                \/ Alive /\ \E h \in Handlers : GbCheck(h)
                \/ Alive /\ \E h \in Handlers : RbCloseDone(h)
                \/ Alive /\ \E h \in Handlers : LaunchDone(h)
                \/ Alive /\ \E h \in Handlers : LaunchFail(h)
                \/ Alive /\ \E h \in Handlers : RenderOk(h)
                \/ Alive /\ \E h \in Handlers : RenderFail(h)
                \/ Alive /\ \E b \in BrowserIds : Disconnect(b)
                \/ ShutdownSignal
                \/ SdDrained
                \/ \E closed \in BOOLEAN : SdCloseDone(closed)
                \/ \E closed \in BOOLEAN : SdDbClosed(closed)
                \/ SdDeadline

SpecShutdown == Init /\ [][NextShutdown]_vars

\* C23: durable storage is closed also when closing the browser fails: when
\* the process has exited after persistentBrowser.close() rejected,
\* databaseManager.closeAll() has run; and the listener is closed before the
\* browser, the browser before the storage.
C23_ShutdownClosesStorage == /\ (sdPc = "exited" /\ sdRun.closeRejected) => sdRun.dbClosed
                             /\ sdRun.dbClosed => (sdPc = "exited" /\ (persistentBrowser # 0 => browserState[persistentBrowser] = "closed"))

\* The rows of a durable table stored under key name n, in any spelling.
RowsNamed(tier, n) == {i \in 1..Len(TierTable(tier)) : TierTable(tier)[i].username.n = n}

\* C32: the keys of the durable tables are case-insensitive.  After a set,
\* get with the key in either spelling finds the value of the last set of
\* that key name, whatever spelling that set used; the table holds one row
\* for the key name; and a get that was made returned that value.
C32_KeysCaseInsensitive == \A tier \in Tiers : /\ \A n \in TierNames : tierLast[tier][n].value # 0 => /\ Cardinality(RowsNamed(tier, n)) = 1
                                                                                                     /\ \A c \in {0, 1} : TierRead(tier, TierKey(tier, n, c)) = [present |-> TRUE, data |-> tierLast[tier][n].value, cached_at |-> TierRead(tier, TierKey(tier, n, 0)).cached_at]
                                               /\ (tierRet.tier = tier /\ tierLast[tier][tierRet.n].value # 0) => (tierRet.row.present /\ tierRet.row.data = tierLast[tier][tierRet.n].value)

\* set(k1, v1), set(k2, v2) with k2 the other spelling of k1 and v2 # v1,
\* then get(k1) returned v2.
C32_Witness == \E tier \in Tiers : /\ tierRet.tier = tier
                                   /\ tierPrev[tier][tierRet.n].value # 0
                                   /\ tierPrev[tier][tierRet.n].value # tierLast[tier][tierRet.n].value
                                   /\ tierPrev[tier][tierRet.n].c # tierLast[tier][tierRet.n].c
                                   /\ tierRet.c = tierPrev[tier][tierRet.n].c
                                   /\ tierRet.row.data = tierLast[tier][tierRet.n].value

\* cleanExpiredProfiles / cleanExpiredImages called with maxAgeMs.
TierPrune(tier, maxAgeMs) == /\ Running
                             /\ dbOk
                             /\ tierOps < MaxTierOps
                             /\ tierOps' = tierOps + 1
                             /\ IF tier = "profile"
                                  THEN /\ profileCache' = cleanExpiredProfiles(profileCache, maxAgeMs, now)
                                       /\ UNCHANGED imageCache
                                  ELSE /\ imageCache' = cleanExpiredImages(imageCache, maxAgeMs, now)
                                       /\ UNCHANGED profileCache
                             /\ tierPruned' = [op |-> tierOps + 1, tier |-> tier, maxAgeMs |-> maxAgeMs, changes |-> DeleteChanges(TierTable(tier), now - maxAgeMs)]
                             /\ UNCHANGED <<varsLRU, varsBrowser, varsCsrf, varsProc, varsDaily, now, disableRateLimit, rateLimitStore, rq, issued, sweepPc, sweepIdx, nextSweep, lastCheck, allowedLog, lastDecision, fetchLog, dbOk, ir, resp, lastDims, tierLast, tierPrev, tierRet, varsDisk, varsDb>>

\* The ages the tables are pruned with.
PruneAges == {0, SCREENSHOT_CACHE_TTL}

NextPrune == \/ \E tier \in Tiers, n \in TierNames, c \in {0, 1}, value \in Values : TierSet(tier, n, c, value)
             \/ \E tier \in Tiers, maxAgeMs \in PruneAges : TierPrune(tier, maxAgeMs)
             \/ \E d \in {SCREENSHOT_CACHE_TTL} : now + d <= MaxPruneTime /\ Elapse(d)

\* Both tables start with one row, written one TTL of its table ago.
InitPruneSpec == /\ InitLRU /\ QuietBrowser /\ InitRL /\ disableRateLimit = FALSE /\ InitImg /\ InitTier /\ InitCsrf /\ QuietDaily /\ InitProc
                 /\ Len(profileCache) = 1 /\ Len(imageCache) = 1
                 /\ ImageStartTables
                 /\ \A j \in 1..Len(imageCache) : imageCache[j].username.n = 1

SpecPrune == InitPruneSpec /\ [][NextPrune]_vars

\* The rows of a table, as a set.
RowSet(table) == {table[i] : i \in 1..Len(table)}

\* C33: a prune of a durable table with a given ttl removes exactly the rows
\* whose cached_at is older than now - ttl, returns the number of rows it
\* removed, and leaves every other row of that table and the whole other
\* table as they were.
C33_PruneRemovesExpired == [][\A tier \in Tiers : (tierPruned' # tierPruned /\ tierPruned'.tier = tier)
                                                    => /\ RowSet(TierTable(tier)') = {r \in RowSet(TierTable(tier)) : r.cached_at >= now - tierPruned'.maxAgeMs}
                                                       /\ tierPruned'.changes = Cardinality(RowSet(TierTable(tier))) - Cardinality(RowSet(TierTable(tier)'))
                                                       /\ Len(TierTable(tier)') = Cardinality(RowSet(TierTable(tier)'))
                                                       /\ \A other \in Tiers \ {tier} : TierTable(other)' = TierTable(other)]_vars

\* A prune removed one row and left a younger row of the same table, while
\* the other table holds a row as old as the one removed.
C33_Witness == \E tier \in Tiers, other \in Tiers : /\ other # tier
                                                    /\ tierPruned.tier = tier
                                                    /\ tierPruned.changes = 1
                                                    /\ Len(TierTable(tier)) = 1
                                                    /\ \E j \in 1..Len(TierTable(other)) : TierTable(other)[j].cached_at < now - tierPruned.maxAgeMs

\* The window of a limiter, in seconds.
WindowSeconds(windowMs) == windowMs * SecondsPerUnit

\* C36: a rejection carries a usable retry hint.  When a middleware limiter
\* or the daily limit of GET /user/:username rejects a check, retryAfter is
\* at least 1 and at most the limiter's window in seconds, and the same
\* check made retryAfter seconds later, with nothing else recorded for the
\* key in between, is allowed.
C36_RetryHintUsable == [][/\ \A l \in Limiters : (lastCheck'[l] # lastCheck[l] /\ ~lastCheck'[l].allowed)
                                                   => /\ lastCheck'[l].retryAfter >= 1
                                                      /\ lastCheck'[l].retryAfter <= WindowSeconds(LIMITER_WINDOW)
                                                      /\ RateLimiterCheck(rateLimitStore', lastCheck'[l].ip, LimitOf(l), LIMITER_WINDOW, now' + (lastCheck'[l].retryAfter \div SecondsPerUnit)).allowed
                          /\ (lastDecision' # lastDecision /\ lastDecision'.out = "rl_daily")
                               => /\ lastDecision'.retryAfter >= 1
                                  /\ lastDecision'.retryAfter <= WindowSeconds(DAILY_WINDOW)
                                  /\ DailyLimitCheck(rateLimitStore', lastDecision'.ip, now' + (lastDecision'.retryAfter \div SecondsPerUnit)).allowed]_vars

\* The entries of csrfTokenStore for a userID.
TokenEntries(store, userID) == {i \in 1..Len(store) : store[i].k = userID}

\* C37: issuing a token overwrites the prior token of the session.  The
\* store never holds more than one entry for a userID; right after an issue
\* the entry holds the token just issued; and a check passes only with the
\* token issued last for that userID, so a token issued earlier is rejected.
C37_IssueOverwrites == [][\A u \in CsrfUsers : /\ Cardinality(TokenEntries(csrfTokenStore', u)) <= 1
                                               /\ \A token \in CsrfTokens : CsrfIssue(u, token) => (StoredData(csrfTokenStore', u).token = token /\ csrfIssued'[u].last = token)
                                               /\ (csrfLast'.seq # csrfLast.seq /\ csrfLast'.userID = u /\ csrfLast'.passed) => (csrfIssued[u].last # 0 /\ csrfLast'.csrfToken = csrfIssued[u].last)]_vars

\* Two different tokens were issued to one userID, in one entry of the store
\* is the later one, and a check with the earlier one was rejected for not
\* matching it.
C37_Witness == \E u \in CsrfUsers : /\ csrfIssued[u].prev # 0
                                    /\ csrfIssued[u].prev # csrfIssued[u].last
                                    /\ Cardinality(TokenEntries(csrfTokenStore, u)) = 1
                                    /\ StoredData(csrfTokenStore, u).token = csrfIssued[u].last
                                    /\ csrfLast.userID = u
                                    /\ csrfLast.csrfToken = csrfIssued[u].prev
                                    /\ csrfLast.stored /\ csrfLast.token = csrfIssued[u].last
                                    /\ ~csrfLast.passed

\* The render requests that hold process b: getBrowser has returned it to
\* them and their render has not ended.
Borrowers(b) == {h \in Handlers : pc[h] = "acquired" /\ hb[h] = b}

\* C38: the shared process is not closed under a render in progress: no
\* restartBrowser of a request that found the count at the limit and no
\* GET /clear-cache calls close() on a running process while a render
\* request that was handed that process is still rendering on it.
C38_NoCloseUnderRender == [][\A b \in BrowserIds : (browserState[b] = "running" /\ browserState'[b] = "closing") => Borrowers(b) = {}]_vars

(***************************************************************************)
(* Both cache-reading routes while time passes, on a server where the       *)
(* playwright package is not installed: GET /user/:username, and            *)
(* GET /qr/:username/image up to the 503 that follows a cache miss.         *)
(***************************************************************************)
NextFresh == \/ \E ip \in Clients, user \in Users : ProfileStart(1, ip, user)
             \/ ProfileCheck(1)
             \/ \E outcome \in {"ok", "notfound", "error"} : FetchDone(1, outcome)
             \/ \E h \in ImgHandlers, ip \in Clients : ImgStart(h, ip, 1, Absent, Absent, Absent, "dark", MaxImgRequests)
             \/ \E h \in ImgHandlers : ImgProfileRead(h)
             \/ \E h \in ImgHandlers : ImgShotRead(h)
             \/ \E h \in ImgHandlers : ImgGetBrowser(h)
             \/ \E h \in ImgHandlers : ImgNoBrowser(h)
             \/ Tick

\* The screenshot rows that exist at start are those of user 1.
InitFreshSpec == /\ InitLRU /\ InitBrowser /\ pwAvailable = FALSE /\ InitRL /\ disableRateLimit = FALSE /\ InitImg /\ InitTier /\ InitCsrf /\ QuietDaily /\ InitProc
                 /\ \A j \in 1..Len(imageCache) : imageCache[j].username.n = 1

SpecFresh == InitFreshSpec /\ [][NextFresh]_vars

\* C34: freshness is decided by the caller.  The getters return a stored
\* row whatever its age; the render route serves a cached screenshot only
\* when now - cached_at < SCREENSHOT_CACHE_TTL, and GET /user/:username
\* serves a cached profile only when now - cached_at < PROFILE_CACHE_TTL: a
\* row whose age has reached the TTL is not served as a cache hit.
C34_CallerDecidesFreshness == [][/\ \A j \in 1..Len(imageCache) : getCachedImage(imageCache, imageCache[j].username).present
                                 /\ \A j \in 1..Len(profileCache) : getCachedProfile(profileCache, profileCache[j].username).present
                                 /\ \A h \in ImgHandlers : (ir[h].pc = "shot" /\ ir'[h].pc = "idle" /\ resp'[h].from = "cache")
                                                             => /\ getCachedImage(imageCache, ir[h].key).present
                                                                /\ now - getCachedImage(imageCache, ir[h].key).cached_at < SCREENSHOT_CACHE_TTL
                                                                /\ resp'[h].body = getCachedImage(imageCache, ir[h].key).data
                                 /\ \A h \in ImgHandlers : (ir[h].pc = "shot" /\ dbOk /\ now - getCachedImage(imageCache, ir[h].key).cached_at >= SCREENSHOT_CACHE_TTL) => ir'[h].pc \in {"shot", "browser"}
                                 /\ lastDecision'.out = "hit" => (lastDecision'.present /\ lastDecision'.at - lastDecision'.cached_at < PROFILE_CACHE_TTL)
                                 /\ (lastDecision'.present /\ lastDecision'.at - lastDecision'.cached_at >= PROFILE_CACHE_TTL) => lastDecision'.out # "hit"]_vars

\* A screenshot and a profile whose ages are exactly the TTL were both read
\* and neither was served: the render request went on to getBrowser (503
\* here) and the profile request went to the provider or the daily limit.
C34_Witness == \E h \in ImgHandlers : /\ resp[h].from = "unavailable"
                                      /\ getCachedImage(imageCache, CacheKey(1, 393, 852, 30, "dark")).present
                                      /\ now - getCachedImage(imageCache, CacheKey(1, 393, 852, 30, "dark")).cached_at = SCREENSHOT_CACHE_TTL
                                      /\ lastDecision.present
                                      /\ lastDecision.at - lastDecision.cached_at = PROFILE_CACHE_TTL
                                      /\ lastDecision.out \in {"fetch", "rl_daily"}

(***************************************************************************)
(* The disk tier: cacheImage writes the files of IMAGE_CACHE_DIR and        *)
(* GET /images/:id serves them.                                             *)
(***************************************************************************)
\* The content types a download answers with; "none" is a missing header.
ContentTypes == {"image/png", "image/jpeg", "none"}

\* const ext = contentType.includes('png') ? 'png' : 'jpg', with
\* 'image/jpeg' standing in for a missing header.
ExtOf(contentType) == IF contentType = "image/png" THEN "png" ELSE "jpg"

\* writeFile(resolve(IMAGE_CACHE_DIR, `${cacheId}.${ext}`), buffer): the file
\* of that name is created or overwritten; files of other names stay.
WriteFile(files, id, ext, content, t) == {f \in files : ~(f.id = id /\ f.ext = ext)} \cup {[id |-> id, ext |-> ext, content |-> content, mtime |-> t]}

ExistsSync(files, id, ext) == \E f \in files : f.id = id /\ f.ext = ext

ReadFileSync(files, id, ext) == (CHOOSE f \in files : f.id = id /\ f.ext = ext).content

\* GET /images/:id: id.jpg if it exists, else id.png, else 404.
ServeImage(files, id) == IF ExistsSync(files, id, "jpg") THEN [id |-> id, status |-> 200, body |-> ReadFileSync(files, id, "jpg")]
                         ELSE IF ExistsSync(files, id, "png") THEN [id |-> id, status |-> 200, body |-> ReadFileSync(files, id, "png")]
                         ELSE [id |-> id, status |-> 404, body |-> 0]

\* cacheImage(imageUrl, cacheId) whose download succeeded.
CacheImage(id, contentType, content) == /\ Running
                                        /\ tierOps < MaxTierOps
                                        /\ tierOps' = tierOps + 1
                                        /\ diskCache' = WriteFile(diskCache, id, ExtOf(contentType), content, now)
                                        /\ diskLast' = [diskLast EXCEPT ![id] = content]
                                        /\ diskRet' = NoServe
                                        /\ UNCHANGED <<varsLRU, varsBrowser, varsRL, varsImg, varsCsrf, varsProc, dcPc, dcRun, nextDaily, tierLast, tierPrev, tierRet, tierPruned, varsDb>>

\* cacheImage whose download failed (fetch threw or !response.ok): null is
\* returned and nothing is written.
CacheImageFailed(id) == /\ Running
                        /\ tierOps < MaxTierOps
                        /\ tierOps' = tierOps + 1
                        /\ diskRet' = NoServe
                        /\ UNCHANGED <<varsLRU, varsBrowser, varsRL, varsImg, varsCsrf, varsProc, varsDaily, tierLast, tierPrev, tierRet, tierPruned, diskLast, varsDb>>

\* A GET /images/:id request.
ImagesGet(id) == /\ Running
                 /\ tierOps < MaxTierOps
                 /\ tierOps' = tierOps + 1
                 /\ diskRet' = ServeImage(diskCache, id)
                 /\ UNCHANGED <<varsLRU, varsBrowser, varsRL, varsImg, varsCsrf, varsProc, varsDaily, tierLast, tierPrev, tierRet, tierPruned, diskLast, varsDb>>

NextDisk == \/ \E id \in AssetIds, contentType \in ContentTypes, content \in Values : CacheImage(id, contentType, content)
            \/ \E id \in AssetIds : CacheImageFailed(id)
            \/ \E id \in AssetIds : ImagesGet(id)

SpecDisk == InitTierSpec /\ [][NextDisk]_vars

FilesOf(id) == {f \in diskCache : f.id = id}

\* C35: the disk tier holds one file per asset id.  After any sequence of
\* cacheImage writes for an id, whatever their content types, at most one
\* file exists for the id, GET /images/:id answers with the content of the
\* most recent write, and a GET that was made answered with it.
C35_OneFilePerAsset == \A id \in AssetIds : /\ Cardinality(FilesOf(id)) <= 1
                                            /\ diskLast[id] # 0 => ServeImage(diskCache, id) = [id |-> id, status |-> 200, body |-> diskLast[id]]
                                            /\ (diskRet.id = id /\ diskLast[id] # 0) => diskRet.body = diskLast[id]

\* C39: a render request answered from a fresh screenshot-cache row does
\* not touch the process manager.  Up to the cache probe the request has not
\* entered getBrowser, and neither its arrival, nor its profile read, nor the
\* step that answers it from the cache changes playwright, the stored
\* browser, any process, the launch count or screenshotCount; it is answered
\* 200 with the cached image also when playwright cannot be loaded.
C39_CacheHitLeavesBrowser == [][\A h \in ImgHandlers : /\ ir[h].pc \in {"profile", "shot"} => (pc[h] = "idle" /\ hb[h] = 0 /\ result[h] = "none")
                                                       /\ (ir[h].pc \in {"idle", "profile"} /\ ir'[h] # ir[h]) => (UNCHANGED varsBrowser /\ UNCHANGED contexts)
                                                       /\ (ir[h].pc = "shot" /\ ir'[h].pc = "idle" /\ resp'[h].from = "cache")
                                                            => (resp'[h].status = 200 /\ resp'[h].body = getCachedImage(imageCache, ir[h].key).data /\ UNCHANGED varsBrowser /\ UNCHANGED contexts)]_vars

\* A request was answered from the cache although playwright cannot be
\* loaded: nothing was loaded or launched.
C39_Witness == \E h \in ImgHandlers : /\ resp[h] = [status |-> 200, from |-> "cache", body |-> 1]
                                      /\ ~pwAvailable
                                      /\ playwright = "null"
                                      /\ persistentBrowser = 0
                                      /\ launches = 0
                                      /\ screenshotCount = 0
                                      /\ result[h] = "none"

(***************************************************************************)
(* DatabaseManager.getProvider / getDatabase, SQLiteProvider.getDatabase    *)
(* and closeAll, for one database name.  Each action is the run of a call   *)
(* from one await to the next.                                              *)
(***************************************************************************)
DbQuiet == UNCHANGED <<varsLRU, varsBrowser, varsRL, varsImg, varsCsrf, varsProc, varsDaily, tierLast, tierPrev, tierRet, tierOps, tierPruned, varsDisk>>

\* getDatabase is called: getProvider runs up to its await.  With no
\* provider, "this.provider = new SQLiteProvider()" is assigned and
\* "await this.provider.initialize()" starts the mkdir of ./databases; with
\* a provider it is returned, and the caller resumes in a later microtask.
DbCall(c) == /\ dbm.call[c].pc = "idle"
             /\ dbm.closePc = "idle"
             /\ dbm.calls < MaxDbCalls
             /\ IF dbm.provider = 0
                  THEN dbm' = [dbm EXCEPT !.provider = dbm.providers + 1, !.providers = @ + 1, !.calls = @ + 1, !.ret[c] = NoConnection,
                                          !.call[c] = [pc |-> "initialize", provider |-> dbm.providers + 1, database |-> 0]]
                  ELSE dbm' = [dbm EXCEPT !.calls = @ + 1, !.ret[c] = NoConnection,
                                          !.call[c] = [pc |-> "provider", provider |-> dbm.provider, database |-> 0]]
             /\ DbQuiet

\* initialize() resolved for the caller that created the provider: the
\* directory ./databases exists now.
DbInitialized(c) == /\ dbm.call[c].pc = "initialize"
                    /\ dbm' = [dbm EXCEPT !.dirReady = TRUE, !.call[c].pc = "provider"]
                    /\ DbQuiet

\* "const provider = await this.getProvider()" resumed.  A registered
\* connection is returned.  Otherwise provider.getDatabase runs (it is
\* synchronous): it returns the connection the provider holds, or opens one
\* with new Database(path), which throws when the directory is missing; the
\* caller then awaits the value before it registers it.
DbAfterProvider(c) == /\ dbm.call[c].pc = "provider"
                      /\ LET p == dbm.call[c].provider
                         IN  IF dbm.activeConnections.set
                               THEN dbm' = [dbm EXCEPT !.ret[c] = dbm.activeConnections, !.call[c].pc = "done"]
                               ELSE IF dbm.databases[p] # 0
                                 THEN dbm' = [dbm EXCEPT !.call[c] = [pc |-> "register", provider |-> p, database |-> dbm.databases[p]]]
                                 ELSE IF dbm.dirReady
                                   THEN dbm' = [dbm EXCEPT !.opened = @ + 1, !.databases[p] = dbm.opened + 1, !.call[c] = [pc |-> "register", provider |-> p, database |-> dbm.opened + 1]]
                                   ELSE dbm' = [dbm EXCEPT !.call[c].pc = "failed"]
                      /\ DbQuiet

\* "await provider.getDatabase(...)" resumed: activeConnections.set(key,
\* { provider, database }) and the entry is returned.
DbRegister(c) == /\ dbm.call[c].pc = "register"
                 /\ dbm' = [dbm EXCEPT !.activeConnections = [set |-> TRUE, provider |-> dbm.call[c].provider, database |-> dbm.call[c].database],
                                       !.ret[c] = [set |-> TRUE, provider |-> dbm.call[c].provider, database |-> dbm.call[c].database],
                                       !.call[c].pc = "done"]
                 /\ DbQuiet

\* The caller has used what it got (or handled the error).
DbReturn(c) == /\ dbm.call[c].pc \in {"done", "failed"}
               /\ dbm' = [dbm EXCEPT !.call[c] = IdleCall]
               /\ DbQuiet

\* closeAll, called by gracefulShutdown once the server has drained, so with
\* no getDatabase call in flight: provider.closeAll() closes and forgets the
\* provider's connections, then the call awaits it.
DbCloseAllStart == /\ dbm.closePc = "idle"
                   /\ dbm.closes < MaxDbCloses
                   /\ \A c \in DbCallers : dbm.call[c].pc = "idle"
                   /\ IF dbm.provider # 0
                        THEN dbm' = [dbm EXCEPT !.databases[dbm.provider] = 0, !.closePc = "await"]
                        ELSE dbm' = [dbm EXCEPT !.activeConnections = NoConnection, !.closes = @ + 1]
                   /\ DbQuiet

\* "this.provider = null; this.activeConnections.clear()"
DbCloseAllEnd == /\ dbm.closePc = "await"
                 /\ dbm' = [dbm EXCEPT !.provider = 0, !.activeConnections = NoConnection, !.closePc = "idle", !.closes = @ + 1]
                 /\ DbQuiet

NextDb == \/ \E c \in DbCallers : DbCall(c)
          \/ \E c \in DbCallers : DbInitialized(c)
          \/ \E c \in DbCallers : DbAfterProvider(c)
          \/ \E c \in DbCallers : DbRegister(c)
          \/ \E c \in DbCallers : DbReturn(c)
          \/ DbCloseAllStart
          \/ DbCloseAllEnd

InitDbSpec == InitLRU /\ QuietBrowser /\ QuietRL /\ QuietImg /\ InitTierTables /\ InitDb /\ InitCsrf /\ QuietDaily /\ InitProc

SpecDb == InitDbSpec /\ [][NextDb]_vars

\* The callers that have been given a connection.
Served == {c \in DbCallers : dbm.call[c].pc = "done"}

\* C40: durable storage is a lazily created singleton.  Between two
\* closeAll at most one provider is created and at most one connection is
\* opened; no caller of getDatabase fails; every caller that has returned
\* holds the current provider and its open connection, the same for all;
\* and after closeAll nothing is left, so the next call creates them anew.
C40_LazySingleton == /\ dbm.providers <= dbm.closes + 1
                     /\ dbm.opened <= dbm.closes + 1
                     /\ \A c \in DbCallers : dbm.call[c].pc # "failed"
                     /\ \A c \in Served : dbm.ret[c].set /\ dbm.ret[c].provider = dbm.provider /\ dbm.ret[c].database # 0 /\ dbm.ret[c].database = dbm.databases[dbm.provider]
                     /\ \A c1, c2 \in Served : dbm.ret[c1] = dbm.ret[c2]
                     /\ (dbm.closes > 0 /\ dbm.closePc = "idle" /\ dbm.calls = 0) => (dbm.provider = 0 /\ ~dbm.activeConnections.set)

(***************************************************************************)
(* Two render requests in flight together, for the one username whose       *)
(* profile is cached and with the default dimensions: the same cache key.   *)
(* Once a row is written every later request is a cache hit, so at most two *)
(* renders are counted and getBrowser never enters restartBrowser here.     *)
(***************************************************************************)
NextRace == \/ \E h \in Handlers, ip \in Clients : ImgStart(h, ip, 1, Absent, Absent, Absent, "dark", MaxImgRequests)
            \/ \E h \in Handlers : ImgProfileRead(h)
            \/ \E h \in Handlers : ImgShotRead(h)
            \/ \E h \in Handlers : ImgGetBrowser(h)
            \/ \E h \in Handlers : GbCheck(h)
            \/ \E h \in Handlers : LaunchDone(h)
            \/ \E h \in Handlers : LaunchFail(h)
            \/ \E h \in Handlers : ImgNoBrowser(h)
            \/ \E h \in Handlers, outcome \in {"captured", "captured_after_timeout", "threw_before_context", "threw_with_context"} : ImgRender(h, outcome)
            \/ \E h \in Handlers, closed \in BOOLEAN : ImgContextClosed(h, closed)
            \/ \E h \in Handlers, closed \in BOOLEAN : ImgErrorClosed(h, closed)
            \/ \E h \in Handlers : ImgCacheWrite(h)

\* The profile of user 1 is cached; no screenshot is cached.
InitRaceSpec == InitLRU /\ QuietBrowser /\ InitRL /\ disableRateLimit = FALSE /\ Len(profileCache) = 1 /\ QuietRest

SpecRace == InitRaceSpec /\ [][NextRace]_vars

\* The rows of the ImageCache table stored under a cache key.
RowsOf(table, key) == {i \in 1..Len(table) : table[i].username = ToLowerCase(key)}

\* C31: render requests racing on the same missing key may each render and
\* each write.  Every write leaves exactly one row for the key, holding the
\* image of that write (so the row is that of the write that happened last),
\* the request is answered with the image it rendered itself, and the answer
\* of the other request is not touched.
C31_RacingRendersLastWriteWins == [][\A h \in Handlers : (ir[h].pc = "write" /\ ir'[h].pc = "idle" /\ dbOk)
                                                           => /\ resp'[h] = [status |-> 200, from |-> "render", body |-> ir[h].shot]
                                                              /\ Cardinality(RowsOf(imageCache', ir[h].key)) = 1
                                                              /\ getCachedImage(imageCache', ir[h].key).data = ir[h].shot
                                                              /\ \A g \in Handlers \ {h} : resp'[g] = resp[g]]_vars

\* Both requests rendered and wrote; the one that arrived first wrote last,
\* so they were in flight together, and the row holds its image.
C31_Witness == \E h, g \in Handlers : /\ ir[h].pc = "idle" /\ ir[g].pc = "idle"
                                      /\ resp[h].from = "render" /\ resp[g].from = "render"
                                      /\ resp[h].body < resp[g].body
                                      /\ Cardinality(RowsOf(imageCache, CacheKey(1, 393, 852, 30, "dark"))) = 1
                                      /\ getCachedImage(imageCache, CacheKey(1, 393, 852, 30, "dark")).data = resp[h].body

=============================================================================
